---- MODULE Spec2Model ----
(***************************************************************************)
(* Verification model of the cadence reset-and-rebuild core:               *)
(*   - the persistent message queue (sqlQueue),                            *)
(*   - the version-history algebra (VersionHistory),                       *)
(*   - the workflow resetter (workflowResetterImpl, workflowResetorImpl2). *)
(* Each subsystem has its own specification (QueueSpec, VHSpec, ResetSpec) *)
(* over its own variables; the variables of the other subsystems stay at   *)
(* their initial value.                                                    *)
(***************************************************************************)
EXTENDS Integers, Sequences, FiniteSets, TLC

VARIABLES
    \* ---- persistent message queue (one queueType) ----
    queueRows,    \* table queue: set of rows [messageID, payload], key messageID
    ackRow,       \* table queue_metadata: [present, levels] (one row per queueType)
    rowLock,      \* holder of the FOR UPDATE lock on the tail row (0: free)
    ackLock,      \* holder of the FOR UPDATE lock on the ack-level row (0: free)
    qcall,        \* per client: the queue call in progress
    qlog,         \* history of the queue: what the calls did
    \* ---- version histories ----
    vh,           \* the two version histories under test: "a" and "b"
    vhOut,        \* outcome of the last VersionHistory operation
    vhAccepted,   \* per history: the items its AddOrUpdateItem calls accepted
    vhsMem,       \* heap: the VersionHistory objects and the byte arrays of tokens
    vhs,          \* the VersionHistories objects: the original and its duplicate
    vhsHeld,      \* byte array a caller got from GetBranchToken (0: none)
    vhsOut,       \* outcome of the last VersionHistories operation
    \* ---- workflow resetter ----
    currentRun,   \* durable current-run pointer of the workflow
    executions,   \* durable execution records, per run
    events,       \* durable event batches (history), per run
    world,        \* what the collaborators answer: implementation, domain
    branches,     \* durable history branches forked by resets
    handles,      \* workflow cache: holder of each run's exclusive handle
    call,         \* per caller: the ResetWorkflowExecution call in progress
    rlog          \* history of the resets: what the calls did

queueVars == <<queueRows, ackRow, rowLock, ackLock, qcall, qlog>>
vhItemVars == <<vh, vhOut, vhAccepted>>
vhsVars   == <<vhsMem, vhs, vhsHeld, vhsOut>>
vhVars    == <<vhItemVars, vhsVars>>
resetVars == <<currentRun, executions, events, world, branches, handles, call, rlog>>
vars      == <<queueVars, vhVars, resetVars>>

(***************************************************************************)
(* Generic helpers                                                         *)
(***************************************************************************)
SetMax(S) == CHOOSE x \in S : \A y \in S : y <= x

Last(s) == s[Len(s)]

(***************************************************************************)
(*                      PERSISTENT MESSAGE QUEUE                           *)
(***************************************************************************)
\* Bounds of the queue model
NumClients  == 2      \* concurrent clients of the queue
MaxQueueOps == 4      \* calls started over the life of the queue
MaxAckID    == 1      \* ack levels requested are in -1..MaxAckID

Clients  == 1..NumClients
Clusters == {"c1", "c2"}
AckIDs   == (-1)..MaxAckID

MessageIDs == {r.messageID : r \in queueRows}

\* persistence.QueueRow built by EnqueueMessage
newQueueRow(messageID, payload) == [messageID |-> messageID, payload |-> payload]

\* the messageID EnqueueMessage gives the new row
NextMessageIDSkip(lastMessageID) == lastMessageID + 2
NextMessageID(lastMessageID) == lastMessageID + 1

\* Go map read: a missing key reads as the zero value
MapGet(m, k) == IF k \in DOMAIN m THEN m[k] ELSE 0

MapPutAlone(m, k, v) == [x \in {k} |-> v]
MapPut(m, k, v) == [x \in DOMAIN m \cup {k} |-> IF x = k THEN v ELSE m[x]]

\* "Ignore possibly delayed message"
AckIsStaleNever(levels, clusterName, messageID) == FALSE
AckIsStale(levels, clusterName, messageID) == MapGet(levels, clusterName) > messageID

NoLevels == [c \in {} |-> 0]

QIdle == [pc |-> "idle", op |-> "none", lastMessageID |-> -1, arg |-> 0,
          clusterName |-> "c1", levels |-> NoLevels, isNil |-> TRUE]

QueueInit ==
    /\ queueRows = {}
    /\ ackRow = [present |-> FALSE, levels |-> NoLevels]
    /\ rowLock = 0
    /\ ackLock = 0
    /\ qcall = [p \in Clients |-> QIdle]
    /\ qlog = [started |-> 0, enqOK |-> 0, enqFailed |-> 0, assigned |-> <<>>,
               deletes |-> 0, ignored |-> FALSE, last |-> [op |-> "none", ret |-> "nil"]]

\* txExecute: the call returns; a transaction error rolls back and the locks
\* of the transaction are released either way.
QReturn(p, op, ret) ==
    /\ qcall' = [qcall EXCEPT ![p] = QIdle]
    /\ rowLock' = IF rowLock = p THEN 0 ELSE rowLock
    /\ ackLock' = IF ackLock = p THEN 0 ELSE ackLock

QLogRet(op, ret, p) == [op |-> op, ret |-> ret]

\* ---- EnqueueMessage ----
EnqueueMessageBegin(p) ==
    /\ UNCHANGED <<vhVars, resetVars>>
    /\ qcall[p].pc = "idle"
    /\ qlog.started < MaxQueueOps
    /\ qcall' = [qcall EXCEPT ![p] = [QIdle EXCEPT !.pc = "enqRead", !.op = "enqueue", !.arg = p]]
    /\ qlog' = [qlog EXCEPT !.started = @ + 1]
    /\ UNCHANGED <<queueRows, ackRow, rowLock, ackLock>>

\* tx.GetLastEnqueuedMessageIDForUpdate: reads the greatest messageID and locks
\* that row; sql.ErrNoRows (empty queue) is read as lastMessageID = -1.
GetLastEnqueuedMessageIDForUpdate(p) ==
    /\ UNCHANGED <<vhVars, resetVars>>
    /\ qcall[p].pc = "enqRead"
    /\ \/ /\ queueRows = {}
          /\ qcall' = [qcall EXCEPT ![p].pc = "enqInsert", ![p].lastMessageID = -1]
          /\ UNCHANGED <<queueRows, ackRow, rowLock, ackLock, qlog>>
       \/ /\ queueRows # {}
          /\ rowLock = 0
          /\ qcall' = [qcall EXCEPT ![p].pc = "enqInsert",
                                    ![p].lastMessageID = SetMax(MessageIDs)]
          /\ rowLock' = p
          /\ UNCHANGED <<queueRows, ackRow, ackLock, qlog>>
       \/ \* storage failure: "failed to get last enqueued message id"
          /\ QReturn(p, "enqueue", "Internal")
          /\ qlog' = [qlog EXCEPT !.enqFailed = @ + 1,
                                  !.last = QLogRet("enqueue", "Internal", p)]
          /\ UNCHANGED <<queueRows, ackRow>>

\* tx.InsertIntoQueue(newQueueRow(queueType, lastMessageID+1, payload)), commit
InsertIntoQueue(p) ==
    /\ UNCHANGED <<vhVars, resetVars>>
    /\ qcall[p].pc = "enqInsert"
    /\ LET id == NextMessageID(qcall[p].lastMessageID) IN
       \/ \* inserted and committed
          /\ id \notin MessageIDs
          /\ queueRows' = queueRows \cup {newQueueRow(id, qcall[p].arg)}
          /\ QReturn(p, "enqueue", "nil")
          /\ qlog' = [qlog EXCEPT !.enqOK = @ + 1,
                                  !.assigned = Append(@, id),
                                  !.last = QLogRet("enqueue", "nil", p)]
          /\ UNCHANGED ackRow
       \/ \* duplicate key (queueType, messageID): the transaction rolls back
          /\ id \in MessageIDs
          /\ QReturn(p, "enqueue", "Internal")
          /\ qlog' = [qlog EXCEPT !.enqFailed = @ + 1,
                                  !.last = QLogRet("enqueue", "Internal", p)]
          /\ UNCHANGED <<queueRows, ackRow>>
       \/ \* storage failure of the insert or of the commit
          /\ id \notin MessageIDs
          /\ QReturn(p, "enqueue", "Internal")
          /\ qlog' = [qlog EXCEPT !.enqFailed = @ + 1,
                                  !.last = QLogRet("enqueue", "Internal", p)]
          /\ UNCHANGED <<queueRows, ackRow>>

\* ---- DeleteMessagesBefore ----
\* a delete waits for a row another transaction holds locked
DeleteWaits(messageID) ==
    IF rowLock = 0 \/ queueRows = {} THEN FALSE ELSE SetMax(MessageIDs) < messageID

\* the rows DELETE ... WHERE message_id < messageID leaves
RowsNotBeforeInclusive(rows, messageID) == {r \in rows : ~(r.messageID <= messageID)}
RowsNotBefore(rows, messageID) == {r \in rows : ~(r.messageID < messageID)}

\* q.db.DeleteMessagesBefore(queueType, messageID): not in a transaction
DeleteMessagesBefore(p) ==
    /\ UNCHANGED <<vhVars, resetVars>>
    /\ qcall[p].pc = "idle"
    /\ qlog.started < MaxQueueOps
    /\ \E messageID \in 0..(MaxQueueOps + 1) :
         \/ /\ ~DeleteWaits(messageID)
            /\ queueRows' = RowsNotBefore(queueRows, messageID)
            /\ qlog' = [qlog EXCEPT !.started = @ + 1, !.deletes = @ + 1,
                                    !.last = [op |-> "delete", ret |-> "nil",
                                              messageID |-> messageID]]
            /\ UNCHANGED <<ackRow, rowLock, ackLock, qcall>>
         \/ \* storage failure
            /\ qlog' = [qlog EXCEPT !.started = @ + 1,
                                    !.last = [op |-> "delete", ret |-> "Internal",
                                              messageID |-> messageID]]
            /\ UNCHANGED <<queueRows, ackRow, rowLock, ackLock, qcall>>

\* ---- UpdateAckLevel ----
UpdateAckLevelBegin(p) ==
    /\ UNCHANGED <<vhVars, resetVars>>
    /\ qcall[p].pc = "idle"
    /\ qlog.started < MaxQueueOps
    /\ \E messageID \in AckIDs, clusterName \in Clusters :
         qcall' = [qcall EXCEPT ![p] = [QIdle EXCEPT !.pc = "ackRead", !.op = "ack",
                                          !.arg = messageID, !.clusterName = clusterName]]
    /\ qlog' = [qlog EXCEPT !.started = @ + 1]
    /\ UNCHANGED <<queueRows, ackRow, rowLock, ackLock>>

\* tx.GetAckLevels(queueType, forUpdate = true)
GetAckLevelsForUpdate(p) ==
    /\ UNCHANGED <<vhVars, resetVars>>
    /\ qcall[p].pc = "ackRead"
    /\ \/ /\ ~ackRow.present
          /\ qcall' = [qcall EXCEPT ![p].pc = "ackWrite", ![p].isNil = TRUE]
          /\ UNCHANGED <<queueRows, ackRow, rowLock, ackLock, qlog>>
       \/ /\ ackRow.present
          /\ ackLock = 0
          /\ qcall' = [qcall EXCEPT ![p].pc = "ackWrite", ![p].isNil = FALSE,
                                    ![p].levels = ackRow.levels]
          /\ ackLock' = p
          /\ UNCHANGED <<queueRows, ackRow, rowLock, qlog>>
       \/ /\ QReturn(p, "ack", "Internal")
          /\ qlog' = [qlog EXCEPT !.last = QLogRet("ack", "Internal", p)]
          /\ UNCHANGED <<queueRows, ackRow>>

\* the rest of the transaction of UpdateAckLevel, and its commit
UpdateAckLevelWrite(p) ==
    /\ UNCHANGED <<vhVars, resetVars>>
    /\ qcall[p].pc = "ackWrite"
    /\ LET c == qcall[p] IN
       \/ \* clusterAckLevels == nil: tx.InsertAckLevel
          /\ c.isNil
          /\ ~ackRow.present
          /\ ackRow' = [present |-> TRUE, levels |-> MapPut(NoLevels, c.clusterName, c.arg)]
          /\ QReturn(p, "ack", "nil")
          /\ qlog' = [qlog EXCEPT !.last = QLogRet("ack", "nil", p)]
          /\ UNCHANGED queueRows
       \/ \* InsertAckLevel on a row inserted meanwhile: duplicate key
          /\ c.isNil
          /\ ackRow.present
          /\ QReturn(p, "ack", "Internal")
          /\ qlog' = [qlog EXCEPT !.last = QLogRet("ack", "Internal", p)]
          /\ UNCHANGED <<queueRows, ackRow>>
       \/ \* ignore possibly delayed message
          /\ ~c.isNil
          /\ AckIsStale(c.levels, c.clusterName, c.arg)
          /\ QReturn(p, "ack", "nil")
          /\ qlog' = [qlog EXCEPT !.ignored = TRUE, !.last = QLogRet("ack", "nil", p)]
          /\ UNCHANGED <<queueRows, ackRow>>
       \/ \* tx.UpdateAckLevels writes the whole map back
          /\ ~c.isNil
          /\ ~AckIsStale(c.levels, c.clusterName, c.arg)
          /\ ackRow' = [present |-> TRUE, levels |-> MapPut(c.levels, c.clusterName, c.arg)]
          /\ QReturn(p, "ack", "nil")
          /\ qlog' = [qlog EXCEPT !.last = QLogRet("ack", "nil", p)]
          /\ UNCHANGED queueRows
       \/ \* storage failure of the write or of the commit
          /\ QReturn(p, "ack", "Internal")
          /\ qlog' = [qlog EXCEPT !.last = QLogRet("ack", "Internal", p)]
          /\ UNCHANGED <<queueRows, ackRow>>

\* ---- ReadMessages ----
\* the rows GetMessagesFromQueue selects: message_id > lastMessageID, in
\* ascending order, at most maxCount of them
RECURSIVE MessagesAfter(_, _)
MessagesAfter(lastMessageID, maxCount) ==
    LET ids == {id \in MessageIDs : id > lastMessageID} IN
    IF maxCount <= 0 \/ ids = {} THEN <<>>
    ELSE LET first == CHOOSE id \in ids : \A other \in ids : id <= other IN
         <<first>> \o MessagesAfter(first, maxCount - 1)

\* q.db.GetMessagesFromQueue(queueType, lastMessageID, maxCount): the error of
\* the store is returned as it is
ReadMessages(p) ==
    /\ UNCHANGED <<vhVars, resetVars>>
    /\ qcall[p].pc = "idle"
    /\ qlog.started < MaxQueueOps
    /\ \E lastMessageID \in {-1, 0}, maxCount \in 1..2 :
         \/ qlog' = [qlog EXCEPT !.started = @ + 1,
                                 !.last = [op |-> "read", ret |-> "nil",
                                           messages |-> MessagesAfter(lastMessageID, maxCount)]]
         \/ \* storage failure
            qlog' = [qlog EXCEPT !.started = @ + 1,
                                 !.last = [op |-> "read", ret |-> "StorageError",
                                           messages |-> <<>>]]
    /\ UNCHANGED <<queueRows, ackRow, rowLock, ackLock, qcall>>

\* ---- GetAckLevels ----
\* q.db.GetAckLevels(queueType, forUpdate = false): the map and the error of
\* the store are returned as they are
GetAckLevels(p) ==
    /\ UNCHANGED <<vhVars, resetVars>>
    /\ qcall[p].pc = "idle"
    /\ qlog.started < MaxQueueOps
    /\ \/ qlog' = [qlog EXCEPT !.started = @ + 1,
                                !.last = [op |-> "getAckLevels", ret |-> "nil",
                                          levels |-> ackRow.levels]]
       \/ \* storage failure
          qlog' = [qlog EXCEPT !.started = @ + 1,
                               !.last = [op |-> "getAckLevels", ret |-> "StorageError",
                                         levels |-> NoLevels]]
    /\ UNCHANGED <<queueRows, ackRow, rowLock, ackLock, qcall>>

\* the message table under concurrent producers and deletes
QueueNext ==
    \E p \in Clients :
         \/ EnqueueMessageBegin(p)
         \/ GetLastEnqueuedMessageIDForUpdate(p)
         \/ InsertIntoQueue(p)
         \/ DeleteMessagesBefore(p)

\* the ack-level row under concurrent updates
AckNext ==
    \E p \in Clients :
         \/ UpdateAckLevelBegin(p)
         \/ GetAckLevelsForUpdate(p)
         \/ UpdateAckLevelWrite(p)

\* every operation of the queue
StoreNext ==
    \E p \in Clients :
         \/ EnqueueMessageBegin(p)
         \/ GetLastEnqueuedMessageIDForUpdate(p)
         \/ InsertIntoQueue(p)
         \/ ReadMessages(p)
         \/ DeleteMessagesBefore(p)
         \/ UpdateAckLevelBegin(p)
         \/ GetAckLevelsForUpdate(p)
         \/ UpdateAckLevelWrite(p)
         \/ GetAckLevels(p)

(***************************************************************************)
(*                          VERSION HISTORIES                              *)
(***************************************************************************)
\* Bounds of the version-history model
MaxEventID == 3      \* event IDs of items are in 0..MaxEventID
MaxVersion == 1      \* versions of items are EmptyVersion or in 0..MaxVersion

\* common.EmptyVersion, the one negative version NewVersionHistoryItem accepts
EmptyVersion == -24

\* common.FirstEventID
FirstEventID == 1

\* the items NewVersionHistoryItem builds without panic
VersionHistoryItems ==
    [eventID : 0..MaxEventID, version : {EmptyVersion} \cup 0..MaxVersion]

HistoryNames == {"a", "b"}

\* NewVersionHistory(nil, nil)
EmptyVersionHistory == [branchToken |-> <<>>, items |-> <<>>]

\* VersionHistory.AddOrUpdateItem: the new items and the error returned
\* VersionHistoryItem.Duplicate: a new item of the same eventID and version;
\* shared tells whether the result is the object it was called on
ItemDuplicateShares(item) == [item |-> item, shared |-> TRUE]
ItemDuplicate(item) == [item |-> item, shared |-> FALSE]

\* VersionHistory.AddOrUpdateItem(item) on the items of the history: the items
\* after the call, the error, and whether the last item is the caller's object
AddOrUpdateItemNoEventCheck(items, item) ==
    IF Len(items) = 0
    THEN [items |-> <<ItemDuplicate(item).item>>, err |-> "nil",
          shared |-> ItemDuplicate(item).shared]
    ELSE LET lastItem == items[Len(items)] IN
         IF item.version < lastItem.version
         THEN [items |-> items, err |-> "BadRequest", shared |-> FALSE]
         ELSE IF item.version > lastItem.version
         THEN [items |-> Append(items, ItemDuplicate(item).item), err |-> "nil",
               shared |-> ItemDuplicate(item).shared]
         ELSE [items |-> [items EXCEPT ![Len(items)].eventID = item.eventID],
               err |-> "nil", shared |-> FALSE]
AddOrUpdateItem(items, item) ==
    IF Len(items) = 0
    THEN [items |-> <<ItemDuplicate(item).item>>, err |-> "nil",
          shared |-> ItemDuplicate(item).shared]
    ELSE LET lastItem == items[Len(items)] IN
         IF item.version < lastItem.version
         THEN [items |-> items, err |-> "BadRequest", shared |-> FALSE]
         ELSE IF item.eventID <= lastItem.eventID
         THEN [items |-> items, err |-> "BadRequest", shared |-> FALSE]
         ELSE IF item.version > lastItem.version
         THEN [items |-> Append(items, ItemDuplicate(item).item), err |-> "nil",
               shared |-> ItemDuplicate(item).shared]
         ELSE [items |-> [items EXCEPT ![Len(items)].eventID = item.eventID],
               err |-> "nil", shared |-> FALSE]

NoItem == [eventID |-> -1, version |-> -1]

\* the loop of VersionHistory.DuplicateUntilLCAItem from index i (1-based),
\* versionHistory the items added so far and whether one of them is an object
\* of the original: the new history, or notFoundErr, or the error of
\* AddOrUpdateItem
RECURSIVE DuplicateUntilLoop(_, _, _, _)
DuplicateUntilLoopNoEventCheck(items, lcaItem, i, versionHistory) ==
    IF i > Len(items)
    THEN [items |-> <<>>, err |-> "BadRequest", shared |-> FALSE]
    ELSE LET item == items[i] IN
         IF item.version < lcaItem.version
         THEN LET r == AddOrUpdateItem(versionHistory.items, item) IN
              IF r.err # "nil" THEN [items |-> <<>>, err |-> r.err, shared |-> FALSE]
              ELSE DuplicateUntilLoop(items, lcaItem, i + 1,
                                      [items |-> r.items,
                                       shared |-> versionHistory.shared \/ r.shared])
         ELSE IF item.version = lcaItem.version
         THEN LET r == AddOrUpdateItem(versionHistory.items, lcaItem) IN
              IF r.err # "nil" THEN [items |-> <<>>, err |-> r.err, shared |-> FALSE]
              ELSE [items |-> r.items, err |-> "nil",
                    shared |-> versionHistory.shared \/ r.shared]
         ELSE [items |-> <<>>, err |-> "BadRequest", shared |-> FALSE]
DuplicateUntilLoop(items, lcaItem, i, versionHistory) ==
    IF i > Len(items)
    THEN [items |-> <<>>, err |-> "BadRequest", shared |-> FALSE]
    ELSE LET item == items[i] IN
         IF item.version < lcaItem.version
         THEN LET r == AddOrUpdateItem(versionHistory.items, item) IN
              IF r.err # "nil" THEN [items |-> <<>>, err |-> r.err, shared |-> FALSE]
              ELSE DuplicateUntilLoop(items, lcaItem, i + 1,
                                      [items |-> r.items,
                                       shared |-> versionHistory.shared \/ r.shared])
         ELSE IF item.version = lcaItem.version
         THEN IF lcaItem.eventID > item.eventID
              THEN [items |-> <<>>, err |-> "BadRequest", shared |-> FALSE]
              ELSE LET r == AddOrUpdateItem(versionHistory.items, lcaItem) IN
                   IF r.err # "nil" THEN [items |-> <<>>, err |-> r.err, shared |-> FALSE]
                   ELSE [items |-> r.items, err |-> "nil",
                         shared |-> versionHistory.shared \/ r.shared]
         ELSE [items |-> <<>>, err |-> "BadRequest", shared |-> FALSE]

\* VersionHistory.DuplicateUntilLCAItem(lcaItem) on the items of the history,
\* starting from NewVersionHistory(nil, nil)
DuplicateUntilLCAItem(items, lcaItem) ==
    DuplicateUntilLoop(items, lcaItem, 1, [items |-> <<>>, shared |-> FALSE])

\* VersionHistory.IsLCAAppendable(item) on the items of the history
IsLCAAppendable(items, item) ==
    IF Len(items) = 0 THEN "panic"
    ELSE IF items[Len(items)] = item THEN "true" ELSE "false"

\* the loop of VersionHistory.FindLCAItem, from the indexes (1-based) down
RECURSIVE FindLCALoop(_, _, _, _)
FindLCALoopLocalFirst(local, remote, localIndex, remoteIndex) ==
    IF localIndex < 1 \/ remoteIndex < 1
    THEN [item |-> NoItem, err |-> "BadRequest"]
    ELSE LET localVersionItem == local[localIndex]
             remoteVersionItem == remote[remoteIndex] IN
         IF localVersionItem.version = remoteVersionItem.version
         THEN [item |-> localVersionItem, err |-> "nil"]
         ELSE IF localVersionItem.version > remoteVersionItem.version
         THEN FindLCALoop(local, remote, localIndex - 1, remoteIndex)
         ELSE FindLCALoop(local, remote, localIndex, remoteIndex - 1)
FindLCALoop(local, remote, localIndex, remoteIndex) ==
    IF localIndex < 1 \/ remoteIndex < 1
    THEN [item |-> NoItem, err |-> "BadRequest"]
    ELSE LET localVersionItem == local[localIndex]
             remoteVersionItem == remote[remoteIndex] IN
         IF localVersionItem.version = remoteVersionItem.version
         THEN IF localVersionItem.eventID > remoteVersionItem.eventID
              THEN [item |-> remoteVersionItem, err |-> "nil"]
              ELSE [item |-> localVersionItem, err |-> "nil"]
         ELSE IF localVersionItem.version > remoteVersionItem.version
         THEN FindLCALoop(local, remote, localIndex - 1, remoteIndex)
         ELSE FindLCALoop(local, remote, localIndex, remoteIndex - 1)

\* VersionHistory.FindLCAItem(remote) on the items of the two histories
FindLCAItem(local, remote) == FindLCALoop(local, remote, Len(local), Len(remote))

\* VersionHistory.ContainsItem(item) on the items of the history, from index
\* i (1-based) with the eventID of the item before it
RECURSIVE ContainsLoop(_, _, _, _)
ContainsLoopNoZeroCase(items, item, i, prevEventID) ==
    IF i > Len(items) THEN FALSE
    ELSE LET currentItem == items[i] IN
         IF item.version = currentItem.version
         THEN IF prevEventID < item.eventID /\ item.eventID <= currentItem.eventID
              THEN TRUE
              ELSE ContainsLoop(items, item, i + 1, currentItem.eventID)
         ELSE IF item.version < currentItem.version THEN FALSE
         ELSE ContainsLoop(items, item, i + 1, currentItem.eventID)
ContainsLoop(items, item, i, prevEventID) ==
    IF i > Len(items) THEN FALSE
    ELSE LET currentItem == items[i] IN
         IF item.version = currentItem.version
         THEN IF item.eventID = FirstEventID - 1 /\ item.eventID <= currentItem.eventID
              THEN TRUE
              ELSE IF prevEventID < item.eventID /\ item.eventID <= currentItem.eventID
              THEN TRUE
              ELSE ContainsLoop(items, item, i + 1, currentItem.eventID)
         ELSE IF item.version < currentItem.version THEN FALSE
         ELSE ContainsLoop(items, item, i + 1, currentItem.eventID)

ContainsItem(items, item) == ContainsLoop(items, item, 1, FirstEventID - 1)

\* ---- VersionHistories: objects on a heap ----
\* Bounds of the VersionHistories model
MaxBranchEventID == 2   \* event IDs of the items of a branch are in 1..MaxBranchEventID
MaxBranchVersion == 1   \* versions of the items of a branch are in 0..MaxBranchVersion
MaxHistObjects   == 3   \* VersionHistory objects allocated
MaxArrays        == 4   \* byte arrays allocated

BranchItems == [eventID : 1..MaxBranchEventID, version : 0..MaxBranchVersion]

\* contents of a branch token
TokenValues == {"t1", "t2"}

\* every item sequence AddOrUpdateItem builds from the empty history in at most
\* two calls, with a token: the histories a caller hands in
BranchCandidates ==
    [branchToken : {"t1"},
     items : {<<>>} \cup {<<x>> : x \in BranchItems}
             \cup {p \in BranchItems \X BranchItems :
                       p[2].eventID > p[1].eventID /\ p[2].version > p[1].version}]

EmptyMem == [arr |-> <<>>, hist |-> <<>>]

\* NewVersionHistory's loop: AddOrUpdateItem(item.Duplicate()) for each input item
RECURSIVE AddAllItems(_, _, _)
AddAllItems(items, inputItems, i) ==
    IF i > Len(inputItems) THEN [items |-> items, err |-> "nil"]
    ELSE LET r == AddOrUpdateItem(items, inputItems[i]) IN
         IF r.err # "nil" THEN [items |-> items, err |-> "panic"]
         ELSE AddAllItems(r.items, inputItems, i + 1)

\* NewVersionHistory(inputToken, inputItems): a new object with its own token
\* array and its own items
NewVersionHistory(mem, inputToken, inputItems) ==
    LET r == AddAllItems(<<>>, inputItems, 1) IN
    [mem |-> [arr |-> Append(mem.arr, inputToken),
              hist |-> Append(mem.hist, [tok |-> Len(mem.arr) + 1, items |-> r.items])],
     addr |-> Len(mem.hist) + 1,
     err |-> r.err]

\* VersionHistory.Duplicate of the object at addr
VersionHistoryDuplicateShared(mem, addr) == [mem |-> mem, addr |-> addr, err |-> "nil"]
VersionHistoryDuplicate(mem, addr) ==
    NewVersionHistory(mem, mem.arr[mem.hist[addr].tok], mem.hist[addr].items)

\* NewVersionHistories(versionHistory): the pointer is stored as it is
NewVersionHistories(addr) == [currentVersionHistoryIndex |-> 0, histories |-> <<addr>>]

\* the loop of VersionHistories.Duplicate
RECURSIVE DuplicateHistories(_, _, _, _)
DuplicateHistories(mem, addrs, i, out) ==
    IF i > Len(addrs) THEN [mem |-> mem, histories |-> out]
    ELSE LET d == VersionHistoryDuplicate(mem, addrs[i]) IN
         DuplicateHistories(d.mem, addrs, i + 1, Append(out, d.addr))

\* VersionHistories.Duplicate
VersionHistoriesDuplicate(mem, h) ==
    LET d == DuplicateHistories(mem, h.histories, 1, <<>>) IN
    [mem |-> d.mem,
     vhs |-> [currentVersionHistoryIndex |-> h.currentVersionHistoryIndex,
              histories |-> d.histories]]

\* VersionHistories.GetVersionHistory(branchIndex), indexes from 0:
\* h.histories[branchIndex] with branchIndex = len(h.histories) is out of range
GetVersionHistory(h, branchIndex) ==
    IF branchIndex < 0 \/ branchIndex > Len(h.histories)
    THEN [addr |-> 0, err |-> "BadRequest"]
    ELSE IF branchIndex = Len(h.histories)
    THEN [addr |-> 0, err |-> "panic"]
    ELSE [addr |-> h.histories[branchIndex + 1], err |-> "nil"]

\* the first-item test of AddVersionHistory
FirstItemMatchesAlways(incomingFirstItem, currentFirstItem) == TRUE
FirstItemMatches(incomingFirstItem, currentFirstItem) ==
    incomingFirstItem.version = currentFirstItem.version

\* newLastItem.version > currentLastItem.version: the new branch becomes current
SwitchesBranchNever(newLastItem, currentLastItem) == FALSE
SwitchesBranchOnEqual(newLastItem, currentLastItem) ==
    newLastItem.version >= currentLastItem.version
SwitchesBranch(newLastItem, currentLastItem) ==
    newLastItem.version > currentLastItem.version

\* VersionHistories.AddVersionHistory(v), v a history the caller built
AddVersionHistory(mem, h, v) ==
    LET rejected(msg) == [mem |-> mem, vhs |-> h, err |-> "BadRequest", msg |-> msg,
                          changed |-> FALSE, index |-> 0]
        current == GetVersionHistory(h, h.currentVersionHistoryIndex)
    IN
    IF v.items = <<>> THEN rejected("version history is empty.")
    ELSE IF current.err # "nil"
    THEN [mem |-> mem, vhs |-> h, err |-> current.err, msg |-> "invalid branch index.",
          changed |-> FALSE, index |-> 0]
    ELSE IF mem.hist[current.addr].items = <<>> THEN rejected("version history is empty.")
    ELSE IF ~FirstItemMatches(v.items[1], mem.hist[current.addr].items[1])
    THEN rejected("version history first item does not match.")
    ELSE LET d == NewVersionHistory(mem, v.branchToken, v.items)
             newVersionHistoryIndex == Len(h.histories)
             currentBranchChanged ==
                 SwitchesBranch(Last(d.mem.hist[d.addr].items),
                                Last(mem.hist[current.addr].items))
         IN
         [mem |-> d.mem,
          vhs |-> [histories |-> Append(h.histories, d.addr),
                   currentVersionHistoryIndex |->
                       IF currentBranchChanged THEN newVersionHistoryIndex
                       ELSE h.currentVersionHistoryIndex],
          err |-> "nil", msg |-> "",
          changed |-> currentBranchChanged, index |-> newVersionHistoryIndex]

\* VersionHistories.SetCurrentVersionHistoryIndex(index)
SetCurrentVersionHistoryIndexLoose(h, index) ==
    IF index < 0 \/ index > Len(h.histories)
    THEN [vhs |-> h, err |-> "BadRequest"]
    ELSE [vhs |-> [h EXCEPT !.currentVersionHistoryIndex = index], err |-> "nil"]
SetCurrentVersionHistoryIndex(h, index) ==
    IF index < 0 \/ index >= Len(h.histories)
    THEN [vhs |-> h, err |-> "BadRequest"]
    ELSE [vhs |-> [h EXCEPT !.currentVersionHistoryIndex = index], err |-> "nil"]

\* what a VersionHistory and a VersionHistories hold, by value
HistoryValue(mem, addr) ==
    [branchToken |-> mem.arr[mem.hist[addr].tok], items |-> mem.hist[addr].items]

HistoriesValue(mem, h) ==
    [currentVersionHistoryIndex |-> h.currentVersionHistoryIndex,
     histories |-> [i \in 1..Len(h.histories) |-> HistoryValue(mem, h.histories[i])]]

\* VersionHistories.ToThrift: the wire record, built from copies
ToThrift(mem, h) ==
    [CurrentVersionHistoryIndex |-> h.currentVersionHistoryIndex,
     Histories |-> [i \in 1..Len(h.histories) |-> HistoryValue(mem, h.histories[i])]]

\* the loop of NewVersionHistoriesFromThrift over input.Histories[1:]
RECURSIVE AddFromThrift(_, _, _, _)
AddFromThrift(mem, h, wireHistories, i) ==
    IF i > Len(wireHistories) THEN [mem |-> mem, vhs |-> h, err |-> "nil"]
    ELSE LET r == AddVersionHistory(mem, h, wireHistories[i]) IN
         IF r.err # "nil" THEN [mem |-> mem, vhs |-> h, err |-> "panic"]
         ELSE AddFromThrift(r.mem, r.vhs, wireHistories, i + 1)

\* NewVersionHistoriesFromThrift(input): the value decoded, or a panic
NewVersionHistoriesFromThrift(input) ==
    IF Len(input.Histories) = 0 THEN [err |-> "panic"]
    ELSE LET first == NewVersionHistory(EmptyMem, input.Histories[1].branchToken,
                                        input.Histories[1].items)
             r == AddFromThrift(first.mem, NewVersionHistories(first.addr),
                                input.Histories, 2)
         IN
         IF first.err # "nil" \/ r.err # "nil" THEN [err |-> "panic"]
         ELSE IF input.CurrentVersionHistoryIndex # r.vhs.currentVersionHistoryIndex
         THEN [err |-> "panic"]
         ELSE [err |-> "nil", value |-> HistoriesValue(r.mem, r.vhs)]

NoVersionHistories == [currentVersionHistoryIndex |-> 0, histories |-> <<>>]

VHsNoOut == [op |-> "none", target |-> "orig", err |-> "nil"]

\* no VersionHistories object
VHsNone ==
    /\ vhsMem = EmptyMem
    /\ vhs = [orig |-> NoVersionHistories, dup |-> NoVersionHistories]
    /\ vhsHeld = 0
    /\ vhsOut = VHsNoOut

\* orig = NewVersionHistories(v) of a history v the caller built
VHsInit ==
    /\ \E v \in BranchCandidates :
         LET n == NewVersionHistory(EmptyMem, v.branchToken, v.items) IN
         /\ vhsMem = n.mem
         /\ vhs = [orig |-> NewVersionHistories(n.addr), dup |-> NoVersionHistories]
    /\ vhsHeld = 0
    /\ vhsOut = VHsNoOut

VHItemInit ==
    /\ vh = [n \in HistoryNames |-> EmptyVersionHistory]
    /\ vhOut = [op |-> "none", err |-> "nil"]
    /\ vhAccepted = [n \in HistoryNames |-> {}]

VHInit == VHItemInit /\ VHsNone

\* v.AddOrUpdateItem(item) on one of the histories
VHAddOrUpdateItem ==
    /\ UNCHANGED <<queueVars, resetVars>>
    /\ \E n \in HistoryNames, item \in VersionHistoryItems :
         LET r == AddOrUpdateItem(vh[n].items, item) IN
         /\ vh' = [vh EXCEPT ![n].items = r.items]
         /\ vhOut' = [op |-> "AddOrUpdateItem", err |-> r.err]
         /\ UNCHANGED <<vhAccepted, vhsVars>>

\* the caller writes to the item it passed to the last AddOrUpdateItem; a
\* history that holds this very object changes with it
VHMutateItem ==
    /\ UNCHANGED <<queueVars, resetVars>>
    /\ vhOut.op = "AddOrUpdateItem"
    /\ \E item \in VersionHistoryItems :
         /\ item # vhOut.item
         /\ vhOut' = [vhOut EXCEPT !.op = "mutateItem", !.item = item]
         /\ vh' = IF vhOut.shared
                  THEN [vh EXCEPT ![vhOut.target].items[Len(vh[vhOut.target].items)] = item]
                  ELSE vh
         /\ UNCHANGED <<vhAccepted, vhsVars>>

\* a.AddOrUpdateItem(item), with the record of the call and of the items accepted
VHAddOrUpdateItemRecorded ==
    /\ UNCHANGED <<queueVars, resetVars>>
    /\ \E item \in VersionHistoryItems :
         LET r == AddOrUpdateItem(vh.a.items, item) IN
         /\ vh' = [vh EXCEPT !.a.items = r.items]
         /\ vhOut' = [op |-> "AddOrUpdateItem", err |-> r.err, target |-> "a",
                      item |-> item, shared |-> r.shared]
         /\ vhAccepted' = IF r.err = "nil"
                           THEN [vhAccepted EXCEPT !.a = @ \cup {item}]
                           ELSE vhAccepted
    /\ UNCHANGED vhsVars

\* a.FindLCAItem(b) and b.FindLCAItem(a)
VHFindLCAItem ==
    /\ UNCHANGED <<queueVars, resetVars>>
    /\ vhOut' = [op |-> "FindLCAItem", err |-> "nil",
                 ab |-> FindLCAItem(vh.a.items, vh.b.items),
                 ba |-> FindLCAItem(vh.b.items, vh.a.items)]
    /\ UNCHANGED <<vh, vhAccepted, vhsVars>>

\* a.DuplicateUntilLCAItem(lcaItem), and IsLCAAppendable(lcaItem) on the result
VHDuplicateUntilLCAItem ==
    /\ UNCHANGED <<queueVars, resetVars>>
    /\ \E lcaItem \in VersionHistoryItems :
         LET r == DuplicateUntilLCAItem(vh.a.items, lcaItem) IN
         vhOut' = [op |-> "DuplicateUntilLCAItem", err |-> r.err, lcaItem |-> lcaItem,
                   result |-> [branchToken |-> <<>>, items |-> r.items],
                   shared |-> r.shared,
                   appendable |-> IF r.err = "nil" THEN IsLCAAppendable(r.items, lcaItem)
                                  ELSE "none"]
    /\ UNCHANGED <<vh, vhAccepted, vhsVars>>

VHNext == VHAddOrUpdateItem \/ VHFindLCAItem

\* one history and what it accepted
ContainNext == VHAddOrUpdateItemRecorded \/ VHMutateItem \/ VHDuplicateUntilLCAItem

\* ---- operations on the VersionHistories objects ----
VHsFrame == UNCHANGED <<queueVars, resetVars, vhItemVars>>

\* the objects that exist: the original, and the duplicate once it was made
VHsTargets == {t \in {"orig", "dup"} : vhs[t].histories # <<>>}

\* dup = orig.Duplicate()
VHsDuplicate ==
    /\ VHsFrame
    /\ vhs.dup.histories = <<>>
    /\ Len(vhsMem.hist) + Len(vhs.orig.histories) <= MaxHistObjects
    /\ Len(vhsMem.arr) + Len(vhs.orig.histories) <= MaxArrays
    /\ LET d == VersionHistoriesDuplicate(vhsMem, vhs.orig) IN
       /\ vhsMem' = d.mem
       /\ vhs' = [vhs EXCEPT !.dup = d.vhs]
    /\ vhsOut' = [op |-> "Duplicate", target |-> "orig", err |-> "nil"]
    /\ UNCHANGED vhsHeld

\* h.AddVersionHistory(v)
VHsAddVersionHistory ==
    /\ VHsFrame
    /\ Len(vhsMem.hist) < MaxHistObjects
    /\ Len(vhsMem.arr) < MaxArrays
    /\ \E t \in VHsTargets, v \in BranchCandidates :
         LET r == AddVersionHistory(vhsMem, vhs[t], v) IN
         /\ vhsMem' = r.mem
         /\ vhs' = [vhs EXCEPT ![t] = r.vhs]
         /\ vhsOut' = [op |-> "AddVersionHistory", target |-> t, err |-> r.err,
                       msg |-> r.msg, v |-> v, changed |-> r.changed, index |-> r.index]
    /\ UNCHANGED vhsHeld

\* h.SetCurrentVersionHistoryIndex(index)
VHsSetCurrentVersionHistoryIndex ==
    /\ VHsFrame
    /\ \E t \in VHsTargets, index \in (-1)..MaxHistObjects :
         LET r == SetCurrentVersionHistoryIndex(vhs[t], index) IN
         /\ vhs' = [vhs EXCEPT ![t] = r.vhs]
         /\ vhsOut' = [op |-> "SetCurrentVersionHistoryIndex", target |-> t,
                       err |-> r.err, index |-> index]
    /\ UNCHANGED <<vhsMem, vhsHeld>>

\* h.GetVersionHistory(branchIndex)
VHsGetVersionHistory ==
    /\ VHsFrame
    /\ \E t \in VHsTargets, branchIndex \in (-1)..MaxHistObjects :
         LET r == GetVersionHistory(vhs[t], branchIndex) IN
         vhsOut' = [op |-> "GetVersionHistory", target |-> t, err |-> r.err,
                    index |-> branchIndex, addr |-> r.addr]
    /\ UNCHANGED <<vhsMem, vhs, vhsHeld>>

\* AddOrUpdateItem(item) on the history GetVersionHistory(branchIndex) returned
VHsAddOrUpdateItem ==
    /\ VHsFrame
    /\ \E t \in VHsTargets, item \in BranchItems :
         \E branchIndex \in 0..(Len(vhs[t].histories) - 1) :
            LET addr == GetVersionHistory(vhs[t], branchIndex).addr
                r == AddOrUpdateItem(vhsMem.hist[addr].items, item) IN
            /\ vhsMem' = [vhsMem EXCEPT !.hist[addr].items = r.items]
            /\ vhsOut' = [op |-> "AddOrUpdateItem", target |-> t, err |-> r.err]
    /\ UNCHANGED <<vhs, vhsHeld>>

\* SetBranchToken(inputToken) on the history GetVersionHistory(branchIndex)
\* returned: the token is copied to a new array
VHsSetBranchToken ==
    /\ VHsFrame
    /\ Len(vhsMem.arr) < MaxArrays
    /\ \E t \in VHsTargets, inputToken \in TokenValues :
         \E branchIndex \in 0..(Len(vhs[t].histories) - 1) :
            LET addr == GetVersionHistory(vhs[t], branchIndex).addr IN
            /\ vhsMem' = [arr |-> Append(vhsMem.arr, inputToken),
                          hist |-> [vhsMem.hist EXCEPT ![addr].tok = Len(vhsMem.arr) + 1]]
            /\ vhsOut' = [op |-> "SetBranchToken", target |-> t, err |-> "nil"]
    /\ UNCHANGED <<vhs, vhsHeld>>

\* GetBranchToken() on the history GetVersionHistory(branchIndex) returned:
\* the caller gets a copy
VHsGetBranchToken ==
    /\ VHsFrame
    /\ Len(vhsMem.arr) < MaxArrays
    /\ vhsHeld = 0
    /\ \E t \in VHsTargets :
         \E branchIndex \in 0..(Len(vhs[t].histories) - 1) :
            LET addr == GetVersionHistory(vhs[t], branchIndex).addr IN
            /\ vhsMem' = [vhsMem EXCEPT !.arr = Append(@, vhsMem.arr[vhsMem.hist[addr].tok])]
            /\ vhsOut' = [op |-> "GetBranchToken", target |-> t, err |-> "nil"]
    /\ vhsHeld' = Len(vhsMem.arr) + 1
    /\ UNCHANGED vhs

\* the caller writes to the token it got
VHsWriteToken ==
    /\ VHsFrame
    /\ vhsHeld # 0
    /\ \E token \in TokenValues \ {vhsMem.arr[vhsHeld]} :
         vhsMem' = [vhsMem EXCEPT !.arr[vhsHeld] = token]
    /\ vhsOut' = [op |-> "WriteToken", target |-> vhsOut.target, err |-> "nil"]
    /\ UNCHANGED <<vhs, vhsHeld>>

\* NewVersionHistoriesFromThrift(h.ToThrift())
VHsRoundTrip ==
    /\ VHsFrame
    /\ \E t \in VHsTargets :
         LET r == NewVersionHistoriesFromThrift(ToThrift(vhsMem, vhs[t])) IN
         vhsOut' = [op |-> "RoundTrip", target |-> t, err |-> r.err,
                    equal |-> IF r.err = "nil"
                              THEN r.value = HistoriesValue(vhsMem, vhs[t])
                              ELSE FALSE]
    /\ UNCHANGED <<vhsMem, vhs, vhsHeld>>

\* the loop of VersionHistories.FindLCAVersionHistoryIndexAndItem from the
\* branch at position i (1-based; its index is i - 1), best the branch chosen
\* so far: its index, its number of items and its LCA item (NoItem: not set)
RECURSIVE FindLCAIndexLoop(_, _, _, _, _)
FindLCAIndexLoopNoLengthCheck(mem, h, incomingItems, i, best) ==
    IF i > Len(h.histories)
    THEN [index |-> best.index, item |-> best.item, err |-> "nil"]
    ELSE LET localItems == mem.hist[h.histories[i]].items
             r == FindLCAItem(localItems, incomingItems) IN
         IF r.err # "nil" THEN [index |-> 0, item |-> NoItem, err |-> r.err]
         ELSE IF \/ best.item = NoItem
                 \/ r.item.eventID > best.item.eventID
              THEN FindLCAIndexLoop(mem, h, incomingItems, i + 1,
                                    [index |-> i - 1, length |-> Len(localItems),
                                     item |-> r.item])
              ELSE FindLCAIndexLoop(mem, h, incomingItems, i + 1, best)
FindLCAIndexLoop(mem, h, incomingItems, i, best) ==
    IF i > Len(h.histories)
    THEN [index |-> best.index, item |-> best.item, err |-> "nil"]
    ELSE LET localItems == mem.hist[h.histories[i]].items
             r == FindLCAItem(localItems, incomingItems) IN
         IF r.err # "nil" THEN [index |-> 0, item |-> NoItem, err |-> r.err]
         ELSE IF \/ best.item = NoItem
                 \/ r.item.eventID > best.item.eventID
                 \/ (r.item.eventID = best.item.eventID /\ Len(localItems) < best.length)
              THEN FindLCAIndexLoop(mem, h, incomingItems, i + 1,
                                    [index |-> i - 1, length |-> Len(localItems),
                                     item |-> r.item])
              ELSE FindLCAIndexLoop(mem, h, incomingItems, i + 1, best)

\* VersionHistories.FindLCAVersionHistoryIndexAndItem(incomingHistory)
FindLCAVersionHistoryIndexAndItem(mem, h, incomingItems) ==
    FindLCAIndexLoop(mem, h, incomingItems, 1,
                     [index |-> 0, length |-> 0, item |-> NoItem])

\* h.FindLCAVersionHistoryIndexAndItem(incoming), incoming a history the
\* caller built
VHsFindLCAVersionHistoryIndexAndItem ==
    /\ VHsFrame
    /\ \E t \in VHsTargets, incoming \in BranchCandidates :
         LET r == FindLCAVersionHistoryIndexAndItem(vhsMem, vhs[t], incoming.items) IN
         vhsOut' = [op |-> "FindLCAVersionHistoryIndexAndItem", target |-> t,
                    err |-> r.err, incoming |-> incoming, index |-> r.index,
                    item |-> r.item]
    /\ UNCHANGED <<vhsMem, vhs, vhsHeld>>

\* one VersionHistories object, read, extended and sent over the wire
\* VersionHistories.IsRebuilt(): the last item of some branch has a greater
\* version than the last item of the current branch
RECURSIVE IsRebuiltLoop(_, _, _, _)
IsRebuiltLoop(mem, h, currentLastItem, i) ==
    IF i > Len(h.histories) THEN [rebuilt |-> FALSE, err |-> "nil"]
    ELSE LET items == mem.hist[h.histories[i]].items IN
         IF items = <<>> THEN [rebuilt |-> FALSE, err |-> "BadRequest"]
         ELSE IF Last(items).version > currentLastItem.version
         THEN [rebuilt |-> TRUE, err |-> "nil"]
         ELSE IsRebuiltLoop(mem, h, currentLastItem, i + 1)

IsRebuilt(mem, h) ==
    LET current == GetVersionHistory(h, h.currentVersionHistoryIndex) IN
    IF current.err # "nil" THEN [rebuilt |-> FALSE, err |-> current.err]
    ELSE IF mem.hist[current.addr].items = <<>>
    THEN [rebuilt |-> FALSE, err |-> "BadRequest"]
    ELSE IsRebuiltLoop(mem, h, Last(mem.hist[current.addr].items), 1)

\* h.IsRebuilt()
VHsIsRebuilt ==
    /\ VHsFrame
    /\ \E t \in VHsTargets :
         LET r == IsRebuilt(vhsMem, vhs[t]) IN
         vhsOut' = [op |-> "IsRebuilt", target |-> t, err |-> r.err,
                    rebuilt |-> r.rebuilt]
    /\ UNCHANGED <<vhsMem, vhs, vhsHeld>>

VHsNext ==
    \/ VHsAddVersionHistory
    \/ VHsSetCurrentVersionHistoryIndex
    \/ VHsGetVersionHistory
    \/ VHsAddOrUpdateItem
    \/ VHsRoundTrip
    \/ VHsFindLCAVersionHistoryIndexAndItem

\* a VersionHistories object and its duplicate, each mutated
DupNext ==
    \/ VHsDuplicate
    \/ VHsAddVersionHistory
    \/ VHsSetCurrentVersionHistoryIndex
    \/ VHsAddOrUpdateItem
    \/ VHsSetBranchToken
    \/ VHsGetBranchToken
    \/ VHsWriteToken

(***************************************************************************)
(*                          WORKFLOW RESETTER                              *)
(***************************************************************************)
\* Bounds of the resetter model
NumCallers == 2      \* concurrent callers of ResetWorkflowExecution, one call each
NumRuns    == 2      \* runs the workflow has before the first reset
MaxFailoverVersion == 1   \* failover versions are in 0..MaxFailoverVersion

Callers      == 1..NumCallers
ExistingRuns == 1..NumRuns
AllRuns      == 1..(NumRuns + NumCallers)
NoRun        == 0
FailoverVersions == 0..MaxFailoverVersion

\* uuid.New(): a run ID no other call and no existing run has
NewRunID(c) == NumRuns + c

\* common.EmptyEventID as the source takes it: no event
EmptyEventID == 0

\* common.TransientEventID: the started ID of an activity with a retry policy
\* that has started, its ActivityTaskStarted event not yet written
TransientEventID == -23

Event(type, attr) == [type |-> type, attr |-> attr]

\* the events every existing run starts with (event IDs 1, 2, 3)
HistoryPrefix ==
    <<Event("WorkflowExecutionStarted", 0), Event("DecisionTaskScheduled", 0),
      Event("DecisionTaskStarted", 0)>>

\* the history of an existing run: still running with a signal after the
\* started decision, completed, or continued as new to the next run
RunHistory(r, ending) ==
    HistoryPrefix \o <<Event("WorkflowExecutionSignaled", r)>> \o
    CASE ending = "running"   -> <<>>
      [] ending = "completed" -> <<Event("DecisionTaskCompleted", 0),
                                   Event("WorkflowExecutionCompleted", 0)>>
      [] ending = "continued" -> <<Event("DecisionTaskCompleted", 0),
                                   Event("WorkflowExecutionContinuedAsNew", r + 1)>>

\* the event IDs a caller may give as baseRebuildLastEventID
ResetPoints == {2, 3, 4}

\* the events of a run that has scheduled three activities and started two of
\* them before its second decision started (event IDs 1..11)
ActivityHistoryPrefix ==
    HistoryPrefix \o
    <<Event("DecisionTaskCompleted", 0),
      Event("ActivityTaskScheduled", 0), Event("ActivityTaskScheduled", 0),
      Event("ActivityTaskScheduled", 0),
      Event("ActivityTaskStarted", [scheduleID |-> 5, identity |-> "worker1"]),
      Event("ActivityTaskStarted", [scheduleID |-> 6, identity |-> "worker2"]),
      Event("DecisionTaskScheduled", 0), Event("DecisionTaskStarted", 0)>>

\* the history of such a run: a signal after the started decision, then the
\* ending
ActivityRunHistory(r, ending) ==
    ActivityHistoryPrefix \o <<Event("WorkflowExecutionSignaled", r)>> \o
    CASE ending = "running"   -> <<>>
      [] ending = "completed" -> <<Event("DecisionTaskCompleted", 0),
                                   Event("WorkflowExecutionCompleted", 0)>>
      [] ending = "continued" -> <<Event("DecisionTaskCompleted", 0),
                                   Event("WorkflowExecutionContinuedAsNew", r + 1)>>

\* the reset points of such a run: its second decision scheduled, started
ActivityResetPoints == {Len(ActivityHistoryPrefix) - 1, Len(ActivityHistoryPrefix)}

\* additionalReapplyEvents a caller of workflowResetorImpl2 may pass: none, or
\* signals among others
AdditionalEvents ==
    {<<>>,
     <<Event("WorkflowExecutionSignaled", 8), Event("DecisionTaskScheduled", 0),
       Event("WorkflowExecutionSignaled", 9)>>}

NoExecution == [state |-> "none", version |-> 0, lastWriteVersion |-> 0]

\* ghost record of one call
NoLog == [failed |-> "none", completeForkFailed |-> FALSE,
          loads |-> [r \in AllRuns |-> 0], releases |-> [r \in AllRuns |-> 0],
          releasedWith |-> [r \in AllRuns |-> "none"],
          currentAtStart |-> NoRun]

\* no branch token
NoBranch == [runID |-> NoRun, forkFrom |-> NoRun, forkNodeID |-> 0]

Idle == [pc |-> "idle", baseRunID |-> NoRun, baseRebuildLastEventID |-> 0,
         resetRunID |-> NoRun, baseNextEventID |-> 0,
         resetBranchToken |-> NoBranch,
         currentRunID |-> NoRun, currentWorkflow |-> NoRun,
         currentWorkflowTerminated |-> FALSE, resetWorkflowVersion |-> 0,
         deferred |-> <<>>, rebuilt |-> [version |-> 0, scheduleID |-> 0,
                                         startedID |-> 0, nextEventID |-> 0,
                                         activities |-> {},
                                         branchToken |-> NoBranch],
         nextRunID |-> NoRun, nextWorkflowNextEventID |-> 0,
         resetEvents |-> <<>>, retError |-> "nil", ret |-> NoRun]

\* The workflow before the first reset: runs 1..NumRuns, the last one current.
\* A run before the last is closed (completed or continued as new); the last
\* run is running or completed. The runs were written at one version.
ResetInit ==
    /\ \E impl \in {"workflowResetterImpl", "workflowResetorImpl2"},
          failoverVersion \in FailoverVersions :
         world = [impl |-> impl, failoverVersion |-> failoverVersion,
                  resetPoints |-> ResetPoints, additionalReapplyEvents |-> <<>>]
    /\ currentRun = NumRuns
    /\ \E endings \in [ExistingRuns -> {"running", "completed", "continued"}],
          version \in FailoverVersions :
         /\ \A r \in ExistingRuns :
              /\ (r < NumRuns) => endings[r] # "running"
              /\ (r = NumRuns) => endings[r] # "continued"
         /\ events = [r \in AllRuns |->
                        IF r \in ExistingRuns THEN RunHistory(r, endings[r]) ELSE <<>>]
         /\ executions = [r \in AllRuns |->
                        IF r \in ExistingRuns
                        THEN [state |-> IF endings[r] = "running" THEN "running" ELSE "closed",
                              version |-> version, lastWriteVersion |-> version]
                        ELSE NoExecution]
    /\ branches = {}
    /\ handles = [r \in AllRuns |-> 0]
    /\ call = [c \in Callers |-> Idle]
    /\ rlog = [c \in Callers |-> NoLog]

\* The workflow before the first reset, its runs with pending activities:
\* run 1 continued as new to run 2, which is current, running or completed.
\* The callers of workflowResetorImpl2 pass additional events to reapply;
\* workflowResetterImpl.ResetWorkflowExecution passes nil to resetWorkflow.
PrepareInit ==
    /\ \E impl \in {"workflowResetterImpl", "workflowResetorImpl2"},
          additionalReapplyEvents \in AdditionalEvents :
         /\ (impl = "workflowResetterImpl") => (additionalReapplyEvents = <<>>)
         /\ world = [impl |-> impl, failoverVersion |-> 0,
                     resetPoints |-> ActivityResetPoints,
                     additionalReapplyEvents |-> additionalReapplyEvents]
    /\ currentRun = NumRuns
    /\ \E ending \in {"running", "completed"} :
         /\ events = [r \in AllRuns |->
                        IF r \in ExistingRuns
                        THEN ActivityRunHistory(r, IF r < NumRuns THEN "continued" ELSE ending)
                        ELSE <<>>]
         /\ executions = [r \in AllRuns |->
                        IF r \in ExistingRuns
                        THEN [state |-> IF r = NumRuns /\ ending = "running"
                                        THEN "running" ELSE "closed",
                              version |-> 0, lastWriteVersion |-> 0]
                        ELSE NoExecution]
    /\ branches = {}
    /\ handles = [r \in AllRuns |-> 0]
    /\ call = [c \in Callers |-> Idle]
    /\ rlog = [c \in Callers |-> NoLog]

\* the queue and the version histories do not take part in a reset
ResetFrame == UNCHANGED <<queueVars, vhVars, world>>

IsImpl2 == world.impl = "workflowResetorImpl2"

CountIn(seq, r) == Cardinality({i \in 1..Len(seq) : seq[i] = r})

\* the record of a call that has returned: its locals are gone, what it
\* returned, the base run it was given and the current run it observed remain
Returned(cl, err, runID) ==
    [Idle EXCEPT !.pc = "done", !.retError = err, !.ret = runID,
                 !.baseRunID = cl.baseRunID,
                 !.currentRunID = cl.currentRunID,
                 !.currentWorkflowTerminated = cl.currentWorkflowTerminated]

\* `return "", err`
AbortKeepsRunID(cl, err) == Returned(cl, err, cl.resetRunID)
AbortSwallows(cl, err) == Returned(cl, "nil", cl.resetRunID)
Abort(cl, err) == Returned(cl, err, NoRun)

\* `return resetRunID, err` at the end of ResetWorkflowExecution (err is nil there)
Succeed(cl) == Returned(cl, "nil", cl.resetRunID)

\* the deferred `getReleaseFn()(retError)` calls run when the call returns:
\* the handles they release, and the record of it
ReleasedHandles(h, deferred) ==
    [r \in AllRuns |-> IF CountIn(deferred, r) > 0 THEN 0 ELSE h[r]]

LogReleases(lg, deferred, err) ==
    [lg EXCEPT !.releases = [r \in AllRuns |-> @[r] + CountIn(deferred, r)],
               !.releasedWith = [r \in AllRuns |->
                                    IF CountIn(deferred, r) > 0 THEN err ELSE @[r]]]

LogLoad(lg, r) == [lg EXCEPT !.loads[r] = @ + 1]

\* the call returns with record cl and runs its deferred releases; lg is the
\* ghost record before the releases
Return(c, cl, deferred, lg) ==
    /\ call' = [call EXCEPT ![c] = cl]
    /\ handles' = ReleasedHandles(handles, deferred)
    /\ rlog' = [rlog EXCEPT ![c] = LogReleases(lg, deferred, cl.retError)]

\* a collaborator call of the reset fails with its error: nothing is written
Fails(c, who) ==
    /\ Return(c, Abort(call[c], who), call[c].deferred, [rlog[c] EXCEPT !.failed = who])
    /\ UNCHANGED <<currentRun, executions, events, branches>>

\* the resetter itself rejects the reset
Rejects(c, err) ==
    /\ Return(c, Abort(call[c], err), call[c].deferred, rlog[c])
    /\ UNCHANGED <<currentRun, executions, events, branches>>

\* the call goes on with record cl
Continue(c, cl) ==
    /\ call' = [call EXCEPT ![c] = cl]
    /\ UNCHANGED <<currentRun, executions, events, branches, handles, rlog>>

\* ---- Phase 1: load context ----
\* the call, with its arguments; domainCache.GetDomain (workflowResetterImpl)
\* or GetDomainID (workflowResetorImpl2), then the two uuid.New()
ResetWorkflowExecution(c) ==
    /\ ResetFrame
    /\ call[c].pc = "idle"
    /\ \E baseRunID \in ExistingRuns, baseRebuildLastEventID \in world.resetPoints :
         LET entered == [Idle EXCEPT !.baseRunID = baseRunID,
                                     !.baseRebuildLastEventID = baseRebuildLastEventID]
             lg == [rlog[c] EXCEPT !.currentAtStart = currentRun]
         IN
         \/ /\ call' = [call EXCEPT ![c] =
                          [entered EXCEPT !.pc = "loadBase",
                                          !.resetWorkflowVersion = world.failoverVersion,
                                          !.resetRunID = NewRunID(c)]]
            /\ rlog' = [rlog EXCEPT ![c] = lg]
            /\ UNCHANGED <<currentRun, executions, events, branches, handles>>
         \/ /\ Return(c, Abort(entered, "GetDomain"), <<>>,
                      [lg EXCEPT !.failed = "GetDomain"])
            /\ UNCHANGED <<currentRun, executions, events, branches>>

\* loadNDCWorkflow(baseRunID), the deferred release, and the reads of the base
\* mutable state (version histories, branch token, next event ID)
LoadBaseWorkflow(c) ==
    /\ ResetFrame
    /\ call[c].pc = "loadBase"
    /\ LET base == call[c].baseRunID IN
       \/ /\ handles[base] = 0
          /\ handles' = [handles EXCEPT ![base] = c]
          /\ call' = [call EXCEPT ![c] = [@ EXCEPT !.pc = "getCurrent",
                                             !.deferred = <<base>>,
                                             !.baseNextEventID = Len(events[base]) + 1]]
          /\ rlog' = [rlog EXCEPT ![c] = LogLoad(@, base)]
          /\ UNCHANGED <<currentRun, executions, events, branches>>
       \/ Fails(c, "loadNDCWorkflow")
       \/ \* the handle is held when a read of the base state fails
          /\ handles[base] = 0
          /\ Return(c, Abort(call[c], "GetEventVersion"), <<base>>,
                    [LogLoad(rlog[c], base) EXCEPT !.failed = "GetEventVersion"])
          /\ UNCHANGED <<currentRun, executions, events, branches>>

\* domainCache.GetDomain of workflowResetorImpl2, or nothing
AfterCurrent(cl) == IF IsImpl2 THEN "getDomain2" ELSE "fork"

\* getCurrentWorkflowRunID, and the choice of the current workflow
GetCurrentWorkflowRunID(c) ==
    /\ ResetFrame
    /\ call[c].pc = "getCurrent"
    /\ \/ /\ currentRun = NoRun
          /\ Rejects(c, "Internal: missing current workflow")
       \/ /\ currentRun # NoRun
          /\ call[c].baseRunID = currentRun
          /\ Continue(c, [call[c] EXCEPT !.pc = AfterCurrent(call[c]),
                                         !.currentRunID = currentRun,
                                         !.currentWorkflow = call[c].baseRunID,
                                         !.resetWorkflowVersion = world.failoverVersion])
       \/ /\ currentRun # NoRun
          /\ call[c].baseRunID # currentRun
          /\ Continue(c, [call[c] EXCEPT !.pc = "loadCurrent",
                                         !.currentRunID = currentRun])
       \/ Fails(c, "getCurrentWorkflowRunID")

\* terminateWorkflow adds its events to the loaded mutable state of the current
\* run: the stored execution records are as they were
TerminateWorkflowPersists(records, cur) == [records EXCEPT ![cur].state = "closed"]
TerminateWorkflow(records, cur) == records

\* loadNDCWorkflow(currentRunID), the deferred release, and terminateWorkflow
\* on the loaded mutable state when the current run is running
LoadCurrentWorkflow(c) ==
    /\ ResetFrame
    /\ call[c].pc = "loadCurrent"
    /\ LET cur == call[c].currentRunID
           loaded == [call[c] EXCEPT !.deferred = Append(@, cur), !.currentWorkflow = cur]
       IN
       \/ \* the current run is closed
          /\ handles[cur] = 0
          /\ executions[cur].state # "running"
          /\ handles' = [handles EXCEPT ![cur] = c]
          /\ call' = [call EXCEPT ![c] = [loaded EXCEPT !.pc = AfterCurrent(loaded),
                                             !.resetWorkflowVersion = world.failoverVersion]]
          /\ rlog' = [rlog EXCEPT ![c] = LogLoad(@, cur)]
          /\ UNCHANGED <<currentRun, executions, events, branches>>
       \/ \* the current run is running: terminated in place (in memory)
          /\ handles[cur] = 0
          /\ executions[cur].state = "running"
          /\ handles' = [handles EXCEPT ![cur] = c]
          /\ call' = [call EXCEPT ![c] = [loaded EXCEPT !.pc = "fork",
                                             !.currentWorkflowTerminated = TRUE,
                                             !.resetWorkflowVersion = executions[cur].version]]
          /\ rlog' = [rlog EXCEPT ![c] = LogLoad(@, cur)]
          /\ executions' = TerminateWorkflow(executions, cur)
          /\ UNCHANGED <<currentRun, events, branches>>
       \/ Fails(c, "loadNDCWorkflow")
       \/ \* terminateWorkflow fails (failDecision, AddWorkflowExecutionTerminatedEvent)
          /\ handles[cur] = 0
          /\ executions[cur].state = "running"
          /\ Return(c, Abort([loaded EXCEPT !.currentWorkflowTerminated = TRUE],
                             "terminateWorkflow"), loaded.deferred,
                    [LogLoad(rlog[c], cur) EXCEPT !.failed = "terminateWorkflow"])
          /\ UNCHANGED <<currentRun, executions, events, branches>>

\* workflowResetorImpl2 asks the domain cache again for the failover version
GetDomainAgain(c) ==
    /\ ResetFrame
    /\ call[c].pc = "getDomain2"
    /\ \/ Continue(c, [call[c] EXCEPT !.pc = "fork"])
       \/ Fails(c, "GetDomain")

\* ---- Phase 2: prepare the reset workflow ----
\* generateBranchToken: ForkHistoryBranch at forkNodeID, then CompleteForkBranch,
\* whose error is logged and dropped
ForkNodeIDAtLastEvent(cl) == cl.baseRebuildLastEventID
ForkNodeID(cl) == cl.baseRebuildLastEventID + 1

\* ForkHistoryBranch: the token of the new branch
NewBranchToken(cl) ==
    [runID |-> cl.resetRunID, forkFrom |-> cl.baseRunID, forkNodeID |-> ForkNodeID(cl)]

GenerateBranchToken(c) ==
    /\ ResetFrame
    /\ call[c].pc = "fork"
    /\ \/ \E completeFails \in BOOLEAN :
            /\ branches' = branches \cup {NewBranchToken(call[c])}
            /\ call' = [call EXCEPT ![c].pc = "rebuild",
                                    ![c].resetBranchToken = NewBranchToken(call[c])]
            /\ rlog' = [rlog EXCEPT ![c].completeForkFailed = completeFails]
            /\ UNCHANGED <<currentRun, executions, events, handles>>
       \/ Fails(c, "ForkHistoryBranch")

\* the decision of the mutable state after the events 1..n
RECURSIVE DecisionAfter(_, _)
DecisionAfter(evs, n) ==
    IF n = 0 THEN [scheduleID |-> EmptyEventID, startedID |-> EmptyEventID]
    ELSE LET d == DecisionAfter(evs, n - 1)
             t == evs[n].type IN
         IF t = "DecisionTaskScheduled"
         THEN [scheduleID |-> n, startedID |-> EmptyEventID]
         ELSE IF t = "DecisionTaskStarted" THEN [d EXCEPT !.startedID = n]
         ELSE IF t \in {"DecisionTaskCompleted", "DecisionTaskFailed"}
         THEN [scheduleID |-> EmptyEventID, startedID |-> EmptyEventID]
         ELSE d

\* the pending activities of the mutable state after the events 1..n
RECURSIVE PendingActivitiesAfter(_, _)
PendingActivitiesAfter(evs, n) ==
    IF n = 0 THEN {}
    ELSE LET pending == PendingActivitiesAfter(evs, n - 1)
             t == evs[n].type IN
         IF t = "ActivityTaskScheduled"
         THEN pending \cup {[scheduleID |-> n, startedID |-> EmptyEventID,
                             details |-> <<"details", n>>, startedIdentity |-> ""]}
         ELSE IF t = "ActivityTaskStarted"
         THEN {IF ai.scheduleID = evs[n].attr.scheduleID
               THEN [ai EXCEPT !.startedID = n, !.startedIdentity = evs[n].attr.identity]
               ELSE ai : ai \in pending}
         ELSE IF t \in {"ActivityTaskCompleted", "ActivityTaskFailed"}
         THEN {ai \in pending : ai.scheduleID # evs[n].attr.scheduleID}
         ELSE pending

\* The pending activities a rebuilt state may hold: those of the replay, or
\* those with one of the activities the history shows as not started taken
\* as started with a retry policy (the state rebuilder is a collaborator,
\* failInflightActivity provides for the case).
RebuiltActivities(evs, n) ==
    LET replayed == PendingActivitiesAfter(evs, n) IN
    {replayed} \cup
    {(replayed \ {ai}) \cup {[ai EXCEPT !.startedID = TransientEventID]} :
        ai \in {a \in replayed : a.startedID = EmptyEventID}}

\* the state rebuilder: the mutable state after replaying the events
\* 1..baseRebuildLastEventID of the base run
RebuiltState(baseRunID, baseRebuildLastEventID, activities, resetBranchToken) ==
    LET d == DecisionAfter(events[baseRunID], baseRebuildLastEventID) IN
    [version |-> executions[baseRunID].version,
     scheduleID |-> d.scheduleID, startedID |-> d.startedID,
     nextEventID |-> baseRebuildLastEventID + 1,
     activities |-> activities,
     branchToken |-> resetBranchToken]

\* stateRebuilder.rebuild
Rebuild(c) ==
    /\ ResetFrame
    /\ call[c].pc = "rebuild"
    /\ \/ \E activities \in RebuiltActivities(events[call[c].baseRunID],
                                                call[c].baseRebuildLastEventID) :
            Continue(c, [call[c] EXCEPT !.pc = "patch",
                            !.rebuilt = RebuiltState(call[c].baseRunID,
                                                     call[c].baseRebuildLastEventID,
                                                     activities,
                                                     call[c].resetBranchToken)])
       \/ Fails(c, "rebuild")

\* GetInFlightDecision: a decision that has started
HasInFlightDecision(ms) == ms.startedID # EmptyEventID

\* the decision gate of the two implementations
DecisionGateOpen(ms) ==
    IF IsImpl2 THEN HasInFlightDecision(ms)
    ELSE HasInFlightDecision(ms) /\ ms.startedID + 1 = ms.nextEventID

DecisionGateError == IF IsImpl2 THEN "Internal: missing inflight decision"
                     ELSE "BadRequest: can only reset to DecisionTaskStarted"

\* the reason the caller gives for the termination
terminateReason == "terminateReason"

\* the pending activities failInflightActivity adds an event for
StartedActivities(ms) == {ai \in ms.activities : ai.startedID # EmptyEventID}

\* the pending activities workflowResetterImpl.failInflightActivity rejects
TransientActivities(ms) ==
    IF IsImpl2 THEN {}
    ELSE {ai \in ms.activities : ai.startedID = TransientEventID}

\* the RespondActivityTaskFailedRequest of a pending activity
ActivityFailure(ai) ==
    [scheduleID |-> ai.scheduleID, startedID |-> ai.startedID,
     reason |-> terminateReason, details |-> ai.details,
     identity |-> ai.startedIdentity]

\* the orders in which a range over the map of pending activities can visit
\* the started ones
ActivityOrders(ms) ==
    {order \in [1..Cardinality(StartedActivities(ms)) -> StartedActivities(ms)] :
        \A i, j \in DOMAIN order : i # j => order[i] # order[j]}

\* failInflightActivity: one ActivityTaskFailed event per started activity
FailInflightActivity(resetEvents, order) ==
    resetEvents \o [i \in DOMAIN order |->
                       Event("ActivityTaskFailed",
ActivityFailure(order[i]))]

\* baseLastEventVersion > resetWorkflowVersion
VersionMismatchNever(ms, resetWorkflowVersion) == FALSE
VersionMismatch(ms, resetWorkflowVersion) == ms.version > resetWorkflowVersion

\* version check, UpdateCurrentVersion, decision gate, AddDecisionTaskFailedEvent
\* and failInflightActivity, on the rebuilt mutable state in memory
PatchResetState(c) ==
    /\ ResetFrame
    /\ call[c].pc = "patch"
    /\ LET ms == call[c].rebuilt IN
       \/ /\ VersionMismatch(ms, call[c].resetWorkflowVersion)
          /\ Rejects(c, "Internal: version mismatch")
       \/ /\ ~VersionMismatch(ms, call[c].resetWorkflowVersion)
          /\ Fails(c, "UpdateCurrentVersion")
       \/ /\ ~VersionMismatch(ms, call[c].resetWorkflowVersion)
          /\ ~DecisionGateOpen(ms)
          /\ Rejects(c, DecisionGateError)
       \/ /\ ~VersionMismatch(ms, call[c].resetWorkflowVersion)
          /\ DecisionGateOpen(ms)
          /\ Fails(c, "AddDecisionTaskFailedEvent")
       \/ /\ ~VersionMismatch(ms, call[c].resetWorkflowVersion)
          /\ DecisionGateOpen(ms)
          /\ StartedActivities(ms) \ TransientActivities(ms) # {}
          /\ Fails(c, "AddActivityTaskFailedEvent")
       \/ /\ ~VersionMismatch(ms, call[c].resetWorkflowVersion)
          /\ DecisionGateOpen(ms)
          /\ TransientActivities(ms) # {}
          /\ Rejects(c, "Internal: transient activity")
       \/ /\ ~VersionMismatch(ms, call[c].resetWorkflowVersion)
          /\ DecisionGateOpen(ms)
          /\ TransientActivities(ms) = {}
          /\ \E order \in ActivityOrders(ms) :
               Continue(c, [call[c] EXCEPT !.pc = "reapplyBase",
                               !.rebuilt.version = call[c].resetWorkflowVersion,
                               !.resetEvents = FailInflightActivity(
                                    <<Event("DecisionTaskFailed", 0)>>, order)])

\* the events with IDs in [firstEventID, nextEventID) of a history
EventsInRange(evs, firstEventID, nextEventID) ==
    IF firstEventID >= nextEventID THEN <<>>
    ELSE SubSeq(evs, firstEventID, nextEventID - 1)

IsSignal(e) == e.type = "WorkflowExecutionSignaled"

\* reapplyEvents: the signals among the events, appended in their order
ReapplyEvents(resetEvents, evs) == resetEvents \o SelectSeq(evs, IsSignal)

\* the run the last event read continues to, if it is a continue-as-new
NextRunIDOfNone(evs) == NoRun
NextRunIDOf(evs) ==
    IF Len(evs) > 0 /\ Last(evs).type = "WorkflowExecutionContinuedAsNew"
    THEN Last(evs).attr ELSE NoRun

\* reapplyWorkflowEvents on the events read, then the loop condition of
\* reapplyContinueAsNewWorkflowEvents
Reapplied(cl, evs) ==
    [cl EXCEPT !.resetEvents = ReapplyEvents(@, evs),
               !.nextRunID = NextRunIDOf(evs),
               !.pc = IF NextRunIDOf(evs) # NoRun THEN "loadNext" ELSE "schedule"]

\* reapplyWorkflowEvents of the base run: [baseRebuildLastEventID+1, baseNextEventID)
ReapplyBaseEvents(c) ==
    /\ ResetFrame
    /\ call[c].pc = "reapplyBase"
    /\ LET evs == EventsInRange(events[call[c].baseRunID],
                                call[c].baseRebuildLastEventID + 1,
                                call[c].baseNextEventID) IN
       \/ Continue(c, Reapplied(call[c], evs))
       \/ Fails(c, "PaginateHistory")
       \/ /\ SelectSeq(evs, IsSignal) # <<>>
          /\ Fails(c, "AddWorkflowExecutionSignaled")

\* loadNDCWorkflow(nextRunID) and the reads of its mutable state.
\* workflowResetterImpl releases the handle when getNextEventIDBranchToken
\* returns; workflowResetorImpl2 has no release call for it.
LoadNextWorkflow(c) ==
    /\ ResetFrame
    /\ call[c].pc = "loadNext"
    /\ LET next == call[c].nextRunID
           read == [call[c] EXCEPT !.pc = "reapplyNext",
                                   !.nextWorkflowNextEventID = Len(events[next]) + 1]
       IN
       \/ /\ ~IsImpl2
          /\ handles[next] = 0
          /\ call' = [call EXCEPT ![c] = read]
          /\ rlog' = [rlog EXCEPT ![c] = LogReleases(LogLoad(@, next), <<next>>, "nil")]
          /\ UNCHANGED <<currentRun, executions, events, branches, handles>>
       \/ /\ ~IsImpl2
          /\ handles[next] = 0
          /\ Return(c, Abort(call[c], "GetCurrentBranchToken"), call[c].deferred,
                    LogReleases([LogLoad(rlog[c], next) EXCEPT !.failed = "GetCurrentBranchToken"],
                                <<next>>, "GetCurrentBranchToken"))
          /\ UNCHANGED <<currentRun, executions, events, branches>>
       \/ /\ IsImpl2
          /\ handles[next] = 0
          /\ handles' = [handles EXCEPT ![next] = c]
          /\ call' = [call EXCEPT ![c] = read]
          /\ rlog' = [rlog EXCEPT ![c] = LogLoad(@, next)]
          /\ UNCHANGED <<currentRun, executions, events, branches>>
       \/ /\ IsImpl2
          /\ handles[next] = 0
          /\ call' = [call EXCEPT ![c] = Abort(call[c], "GetCurrentBranchToken")]
          /\ handles' = [ReleasedHandles(handles, call[c].deferred) EXCEPT ![next] = c]
          /\ rlog' = [rlog EXCEPT ![c] =
                        LogReleases([LogLoad(@, next) EXCEPT !.failed = "GetCurrentBranchToken"],
                                    call[c].deferred, "GetCurrentBranchToken")]
          /\ UNCHANGED <<currentRun, executions, events, branches>>
       \/ Fails(c, "loadNDCWorkflow")

\* reapplyWorkflowEvents of a continue-as-new successor: [FirstEventID, nextEventID)
ReapplyNextEvents(c) ==
    /\ ResetFrame
    /\ call[c].pc = "reapplyNext"
    /\ LET evs == EventsInRange(events[call[c].nextRunID], FirstEventID,
                                call[c].nextWorkflowNextEventID) IN
       \/ Continue(c, Reapplied(call[c], evs))
       \/ Fails(c, "PaginateHistory")
       \/ /\ SelectSeq(evs, IsSignal) # <<>>
          /\ Fails(c, "AddWorkflowExecutionSignaled")

\* reapplyEvents(additionalReapplyEvents), then the event of scheduleDecision
ScheduleBeforeAdditional(resetEvents, additionalReapplyEvents) ==
    ReapplyEvents(Append(resetEvents, Event("DecisionTaskScheduled", 0)),
                  additionalReapplyEvents)
ReapplyAdditionalAndSchedule(resetEvents, additionalReapplyEvents) ==
    Append(ReapplyEvents(resetEvents, additionalReapplyEvents),
           Event("DecisionTaskScheduled", 0))

\* persistToDB: the branch it takes
PersistStepAlwaysCreates(cl) == "persistEvents"
PersistStep(cl) == IF cl.currentWorkflowTerminated THEN "update" ELSE "persistEvents"

\* reapplyEvents(additionalReapplyEvents), then scheduleDecision
ScheduleDecision(c) ==
    /\ ResetFrame
    /\ call[c].pc = "schedule"
    /\ \/ Continue(c, [call[c] EXCEPT
                          !.pc = PersistStep(call[c]),
                          !.resetEvents = ReapplyAdditionalAndSchedule(
                                              @, world.additionalReapplyEvents)])
       \/ /\ SelectSeq(world.additionalReapplyEvents, IsSignal) # <<>>
          /\ Fails(c, "AddWorkflowExecutionSignaled")
       \/ Fails(c, "scheduleDecision")

\* ---- Phase 3: persist ----
\* terminateWorkflow: the events it adds to the mutable state of the current run
TerminateEvents(evs) ==
    (IF HasInFlightDecision(DecisionAfter(evs, Len(evs)))
     THEN <<Event("DecisionTaskFailed", 0)>> ELSE <<>>)
    \o <<Event("WorkflowExecutionTerminated", 0)>>

\* the execution record of the new run
ResetExecution(cl) ==
    [state |-> "running", version |-> cl.resetWorkflowVersion,
     lastWriteVersion |-> cl.resetWorkflowVersion]

\* updateWorkflowExecutionWithNewAsActive on the context of the current run:
\* one transaction closes the current run and creates the new run as current.
\* The store applies it only while the updated run is the current run.
UpdateWorkflowExecutionWithNewAsActive(c) ==
    /\ ResetFrame
    /\ call[c].pc = "update"
    /\ LET cur == call[c].currentWorkflow
           new == call[c].resetRunID IN
       \/ /\ currentRun = cur
          /\ executions' = [executions EXCEPT
                              ![cur] = [@ EXCEPT !.state = "closed",
                                                 !.lastWriteVersion = executions[cur].version],
                              ![new] = ResetExecution(call[c])]
          /\ events' = [events EXCEPT ![cur] = @ \o TerminateEvents(@),
                                      ![new] = call[c].resetEvents]
          /\ currentRun' = new
          /\ Return(c, Succeed(call[c]), call[c].deferred, rlog[c])
          /\ UNCHANGED branches
       \/ Fails(c, "updateWorkflowExecutionWithNewAsActive")

\* GetLastWriteVersion, CloseTransactionAsSnapshot and persistFirstWorkflowEvents,
\* which writes the first event batch of the new run
PersistFirstWorkflowEvents(c) ==
    /\ ResetFrame
    /\ call[c].pc = "persistEvents"
    /\ \/ /\ events' = [events EXCEPT ![call[c].resetRunID] = call[c].resetEvents]
          /\ call' = [call EXCEPT ![c].pc = "create"]
          /\ UNCHANGED <<currentRun, executions, branches, handles, rlog>>
       \/ Fails(c, "GetLastWriteVersion")
       \/ Fails(c, "CloseTransactionAsSnapshot")
       \/ Fails(c, "persistFirstWorkflowEvents")

\* currentRunID of persistToDB: the run ID of the loaded current workflow
PrevRunIDReadAgain(cl) == currentRun
PrevRunID(cl) == cl.currentWorkflow

\* the condition of CreateWorkflowModeContinueAsNew: the current-run pointer
\* is prevRunID at prevLastWriteVersion
CreateCondition(prevRunID, prevLastWriteVersion) ==
    /\ currentRun = prevRunID
    /\ executions[prevRunID].lastWriteVersion = prevLastWriteVersion

\* createWorkflowExecution(mode = ContinueAsNew, currentRunID, currentLastWriteVersion)
CreateWorkflowExecution(c) ==
    /\ ResetFrame
    /\ call[c].pc = "create"
    /\ LET cur == PrevRunID(call[c])
           new == call[c].resetRunID IN
       \/ /\ CreateCondition(cur, executions[cur].lastWriteVersion)
          /\ executions' = [executions EXCEPT ![new] = ResetExecution(call[c])]
          /\ currentRun' = new
          /\ Return(c, Succeed(call[c]), call[c].deferred, rlog[c])
          /\ UNCHANGED <<events, branches>>
       \/ Fails(c, "createWorkflowExecution")

ResetNext ==
    \E c \in Callers :
        \/ ResetWorkflowExecution(c)
        \/ LoadBaseWorkflow(c)
        \/ GetCurrentWorkflowRunID(c)
        \/ LoadCurrentWorkflow(c)
        \/ GetDomainAgain(c)
        \/ GenerateBranchToken(c)
        \/ Rebuild(c)
        \/ PatchResetState(c)
        \/ ReapplyBaseEvents(c)
        \/ LoadNextWorkflow(c)
        \/ ReapplyNextEvents(c)
        \/ ScheduleDecision(c)
        \/ UpdateWorkflowExecutionWithNewAsActive(c)
        \/ PersistFirstWorkflowEvents(c)
        \/ CreateWorkflowExecution(c)

(***************************************************************************)
(*                          SPECIFICATIONS                                 *)
(***************************************************************************)
\* a reset state the queue and the version histories are checked with
ResetNone ==
    /\ world = [impl |-> "workflowResetterImpl", failoverVersion |-> 0,
                resetPoints |-> ResetPoints, additionalReapplyEvents |-> <<>>]
    /\ currentRun = NoRun
    /\ executions = [r \in AllRuns |-> NoExecution]
    /\ events = [r \in AllRuns |-> <<>>]
    /\ branches = {}
    /\ handles = [r \in AllRuns |-> 0]
    /\ call = [c \in Callers |-> Idle]
    /\ rlog = [c \in Callers |-> NoLog]

Init == QueueInit /\ VHInit /\ ResetNone

\* the workflow before the first reset, with an empty queue and empty histories
InitReset == QueueInit /\ VHInit /\ ResetInit

ResetSpec == InitReset /\ [][ResetNext]_vars

\* the workflow with pending activities before the first reset
InitPrepare == QueueInit /\ VHInit /\ PrepareInit

PrepareSpec == InitPrepare /\ [][ResetNext]_vars

QueueSpec == Init /\ [][QueueNext]_vars

AckSpec == Init /\ [][AckNext]_vars

StoreSpec == Init /\ [][StoreNext]_vars

VHSpec == Init /\ [][VHNext]_vars

ContainSpec == Init /\ [][ContainNext]_vars

\* a VersionHistories made of one history, with an empty queue and no workflow
InitVHs == QueueInit /\ VHItemInit /\ VHsInit /\ ResetNone

VHsSpec == InitVHs /\ [][VHsNext]_vars

DupSpec == InitVHs /\ [][DupNext]_vars

\* a VersionHistories object that only grows by AddVersionHistory
AddOnlyNext ==
    \/ VHsAddVersionHistory
    \/ VHsIsRebuilt

AddOnlySpec == InitVHs /\ [][AddOnlyNext]_vars

(***************************************************************************)
(*                  PROPERTIES OF THE MESSAGE QUEUE                        *)
(***************************************************************************)
\* C2 (queue density): as long as nothing was deleted, after any interleaving
\* of concurrent EnqueueMessage calls the stored messageIDs are exactly
\* 0..n-1, where n is the number of calls that returned success, and there
\* is exactly one stored row per successful call (no gap, no duplicate).
QueueDensity ==
    qlog.deletes = 0 =>
        /\ MessageIDs = 0..(qlog.enqOK - 1)
        /\ Cardinality(queueRows) = qlog.enqOK

\* two calls succeeded while a third one, which read the queue when it was
\* still empty, is in its transaction
QueueDensityWitness ==
    /\ qlog.deletes = 0
    /\ qlog.enqOK = 2
    /\ MessageIDs = {0, 1}
    /\ \E p \in Clients : qcall[p].pc = "enqInsert" /\ qcall[p].lastMessageID = -1

\* C3 (ack monotonicity): in every step of any interleaving of concurrent
\* UpdateAckLevel calls, the persisted ack level of a cluster never decreases
\* (and a persisted level never disappears).
AckMonotonic ==
    [][\A c \in Clusters :
          (ackRow.present /\ c \in DOMAIN ackRow.levels) =>
              /\ ackRow'.present
              /\ c \in DOMAIN ackRow'.levels
              /\ ackRow'.levels[c] >= ackRow.levels[c]]_vars

\* a delayed (lower) ack was ignored while another call is in flight
AckMonotonicWitness ==
    /\ qlog.ignored
    /\ ackRow.present
    /\ \E p \in Clients : qcall[p].pc = "ackWrite" /\ ~qcall[p].isNil

\* C4 (messageIDs unique and increasing over the life of the queue): every
\* messageID EnqueueMessage assigns is greater than every messageID assigned
\* before it, deleted messages included.
MessageIDsIncreasing ==
    \A i, j \in 1..Len(qlog.assigned) :
        i < j => qlog.assigned[i] < qlog.assigned[j]

(***************************************************************************)
(*                  PROPERTIES OF THE VERSION HISTORIES                    *)
(***************************************************************************)
StrictlyIncreasing(items) ==
    \A i \in 1..(Len(items) - 1) :
        /\ items[i].eventID < items[i + 1].eventID
        /\ items[i].version < items[i + 1].version

\* C9 (VersionHistory monotonicity): after any sequence of AddOrUpdateItem
\* calls, accepted or rejected, starting from the empty history of the
\* constructor, the items are strictly increasing in eventID and in version.
VersionHistoryMonotonic ==
    \A n \in HistoryNames : StrictlyIncreasing(vh[n].items)

\* a call was rejected on a history of two items or more
VersionHistoryMonotonicWitness ==
    /\ vhOut.op = "AddOrUpdateItem"
    /\ vhOut.err = "BadRequest"
    /\ Len(vh.a.items) >= 2
    /\ Len(vh.b.items) >= 2

\* C10 (LCA symmetry): for two non-empty histories a.FindLCAItem(b) and
\* b.FindLCAItem(a) give the same outcome: the same item, or both the
\* no-joint-point error.
LCASymmetric ==
    (vhOut.op = "FindLCAItem" /\ vh.a.items # <<>> /\ vh.b.items # <<>>) =>
        vhOut.ab = vhOut.ba

\* an LCA was found between histories that end in different versions and
\* differ in the eventID they reach at the common version
LCASymmetricWitness ==
    /\ vhOut.op = "FindLCAItem"
    /\ vhOut.ab.err = "nil"
    /\ Len(vh.a.items) = 3
    /\ Len(vh.b.items) = 2
    /\ Last(vh.a.items).version # Last(vh.b.items).version
    /\ vhOut.ab.item \notin {vh.a.items[i] : i \in 1..3}


\* C1: Reset atomicity. A call that fails in the persist phase leaves the
\* current-run pointer as it was (the run current when the call began, unless
\* another call's reset succeeded meanwhile) and no execution record of its
\* new run; a call that returns success returns its resetRunID and the
\* current-run pointer equals it.
ResetAtomicity ==
    [][\A c \in Callers :
         (call[c].pc # "done" /\ call'[c].pc = "done") =>
            IF call'[c].retError = "nil"
            THEN /\ call[c].pc \in {"update", "create"}
                 /\ call'[c].ret = call[c].resetRunID
                 /\ currentRun' = call'[c].ret
                 /\ executions'[call'[c].ret].state = "running"
            ELSE (call[c].pc \in {"update", "persistEvents", "create"}) =>
                 /\ currentRun' = currentRun
                 /\ executions'[call[c].resetRunID].state = "none"
                 /\ \/ currentRun = rlog[c].currentAtStart
                    \/ \E d \in Callers \ {c} : call[d].ret = currentRun]_vars

ResetAtomicityWitness ==
    \E c, d \in Callers :
        /\ rlog[c].failed = "createWorkflowExecution"
        /\ call[c].pc = "done" /\ call[c].ret = NoRun
        /\ call[d].pc = "done" /\ call[d].retError = "nil"
        /\ call[d].ret = currentRun

\* C5: every handle a call obtained through loadNDCWorkflow has been released
\* exactly once when the call has returned, and the base and current handles
\* were released with the error the call returned.
HandlesReleasedOnce ==
    \A c \in Callers :
        call[c].pc = "done" =>
            /\ \A r \in AllRuns : rlog[c].releases[r] = rlog[c].loads[r]
            /\ \A r \in {call[c].baseRunID, call[c].currentRunID} \ {NoRun} :
                 rlog[c].loads[r] > 0 => rlog[c].releasedWith[r] = call[c].retError

NoDurableWriteBeforePersist ==
    [][\A c \in Callers :
         (call'[c] # call[c] /\ call[c].pc \notin {"update", "persistEvents", "create"}) =>
            /\ currentRun' = currentRun
            /\ executions' = executions
            /\ events' = events]_vars

NoDurableWriteBeforePersistWitness ==
    \E c \in Callers :
        /\ call[c].pc = "done"
        /\ rlog[c].failed = "scheduleDecision"
        /\ call[c].currentWorkflowTerminated
        /\ \E b \in branches : b.runID = NewRunID(c)
        /\ currentRun = call[c].currentRunID
        /\ executions[currentRun].state = "running"
        /\ executions[NewRunID(c)].state = "none"
        /\ events[NewRunID(c)] = <<>>

\* C8: a call in which a collaborator other than CompleteForkBranch failed has
\* returned no run ID and that collaborator's error; a CompleteForkBranch
\* failure is never the error a call returns, and a call with nothing else
\* failing or rejected returns success.
NoErrorSwallowed ==
    \A c \in Callers :
        call[c].pc = "done" =>
            /\ rlog[c].failed # "none" =>
                 (call[c].ret = NoRun /\ call[c].retError = rlog[c].failed)
            /\ call[c].retError # "CompleteForkBranch"
            /\ call[c].retError = "nil" => call[c].ret # NoRun

NoErrorSwallowedWitness ==
    \E c, d \in Callers :
        /\ call[c].pc = "done" /\ rlog[c].failed = "ForkHistoryBranch"
        /\ call[d].pc = "done" /\ rlog[d].completeForkFailed
        /\ call[d].retError = "nil" /\ call[d].ret = NewRunID(d)

\* C11 (LCA bound): when a.FindLCAItem(b) returns an item, a.ContainsItem and
\* b.ContainsItem are both true of it.
LCAContainedInBoth ==
    (vhOut.op = "FindLCAItem" /\ vhOut.ab.err = "nil") =>
        /\ ContainsItem(vh.a.items, vhOut.ab.item)
        /\ ContainsItem(vh.b.items, vhOut.ab.item)

\* C12 (containment): after any sequence of AddOrUpdateItem calls ContainsItem
\* is true of every item a call accepted, and false of every probe whose
\* eventID is greater than the last item's eventID or whose version is
\* greater than the last item's version.
ContainsAcceptedNotBeyondTail ==
    \A n \in HistoryNames :
        /\ \A item \in vhAccepted[n] : ContainsItem(vh[n].items, item)
        /\ vh[n].items # <<>> =>
             \A eventID \in 0..(MaxEventID + 1),
                version \in {EmptyVersion} \cup 0..(MaxVersion + 1) :
                 (\/ eventID > Last(vh[n].items).eventID
                  \/ version > Last(vh[n].items).version) =>
                     ~ContainsItem(vh[n].items, [eventID |-> eventID, version |-> version])

\* a history of three items whose last item was updated in place, after it
\* accepted an item with eventID 0 and four items in all
ContainsAcceptedNotBeyondTailWitness ==
    /\ Len(vh.a.items) = 3
    /\ Cardinality(vhAccepted.a) = 4
    /\ [eventID |-> 0, version |-> EmptyVersion] \in vhAccepted.a
    /\ Last(vh.a.items) = [eventID |-> MaxEventID, version |-> MaxVersion]


\* the operations that change a VersionHistories object or what it owns
VHsMutations ==
    {"AddOrUpdateItem", "SetBranchToken", "AddVersionHistory",
     "SetCurrentVersionHistoryIndex", "WriteToken"}

VHsOther(t) == IF t = "orig" THEN "dup" ELSE "orig"

\* C13: Duplicate() of a VersionHistories (and of each VersionHistory in it)
\* makes an equal object, and from then on AddOrUpdateItem, SetBranchToken,
\* AddVersionHistory, SetCurrentVersionHistoryIndex and a write to a returned
\* branch token on the original or on the duplicate leave the items, the
\* tokens and the current index of the other one unchanged.
DuplicateIndependent ==
    [][ /\ vhsOut'.op = "Duplicate" =>
             /\ HistoriesValue(vhsMem', vhs'.dup) = HistoriesValue(vhsMem, vhs.orig)
             /\ HistoriesValue(vhsMem', vhs'.orig) = HistoriesValue(vhsMem, vhs.orig)
        /\ (vhs.dup.histories # <<>> /\ vhsOut'.op \in VHsMutations) =>
             HistoriesValue(vhsMem', vhs'[VHsOther(vhsOut'.target)])
                = HistoriesValue(vhsMem, vhs[VHsOther(vhsOut'.target)])
      ]_vars

\* the duplicate exists and differs from the original in items and in a
\* token, and a returned token was written
DuplicateIndependentWitness ==
    /\ vhs.dup.histories # <<>>
    /\ vhsOut.op = "WriteToken"
    /\ \E i \in 1..Len(vhs.orig.histories) :
         /\ i <= Len(vhs.dup.histories)
         /\ HistoryValue(vhsMem, vhs.orig.histories[i]).items
              # HistoryValue(vhsMem, vhs.dup.histories[i]).items
    /\ \E i \in 1..Len(vhs.orig.histories) :
         /\ i <= Len(vhs.dup.histories)
         /\ HistoryValue(vhsMem, vhs.orig.histories[i]).branchToken
              # HistoryValue(vhsMem, vhs.dup.histories[i]).branchToken


\* C14: for every VersionHistories reachable through the public operations,
\* also after SetCurrentVersionHistoryIndex and after extending a contained
\* branch, NewVersionHistoriesFromThrift(h.ToThrift()) completes and yields a
\* value equal to h.
RoundTripEquals ==
    vhsOut.op = "RoundTrip" => (vhsOut.err = "nil" /\ vhsOut.equal)


\* the first items of the non-empty histories of h
FirstItems(mem, h) ==
    {mem.hist[h.histories[i]].items[1] :
        i \in {j \in 1..Len(h.histories) : mem.hist[h.histories[j]].items # <<>>}}

\* C15 as stated: in every reachable VersionHistories all contained histories
\* have the same first item, equal in eventID and in version.
FirstItemsShared ==
    \A t \in VHsTargets : Cardinality(FirstItems(vhsMem, vhs[t])) <= 1

\* C15: in every reachable VersionHistories the first items of all contained
\* histories have the same version, and AddVersionHistory answers a history
\* whose first item has another version than the first item of the current
\* history with a BadRequest error.
FirstItemVersionsShared ==
    /\ \A t \in VHsTargets :
         Cardinality({item.version : item \in FirstItems(vhsMem, vhs[t])}) <= 1
    /\ vhsOut.op = "AddVersionHistory" => vhsOut.err \in {"nil", "BadRequest"}

\* a history was rejected for its first item, by an object that holds two
\* histories whose first items differ in eventID
FirstItemVersionsSharedWitness ==
    /\ vhsOut.op = "AddVersionHistory"
    /\ vhsOut.err = "BadRequest"
    /\ vhsOut.msg = "version history first item does not match."
    /\ Cardinality(FirstItems(vhsMem, vhs.orig)) = 2


\* C16: in every state reached by AddVersionHistory and
\* SetCurrentVersionHistoryIndex calls, accepted or rejected, a
\* VersionHistories holds at least one history and its current index is in
\* 0..|histories|-1; SetCurrentVersionHistoryIndex accepts an index exactly
\* when it is in that range, and leaves the object as it was when it rejects.
CurrentIndexValid ==
    /\ [](\A t \in VHsTargets :
            /\ Len(vhs[t].histories) >= 1
            /\ vhs[t].currentVersionHistoryIndex \in 0..(Len(vhs[t].histories) - 1))
    /\ [][ vhsOut'.op = "SetCurrentVersionHistoryIndex" =>
             LET t == vhsOut'.target
                 inRange == vhsOut'.index \in 0..(Len(vhs[t].histories) - 1)
             IN
             /\ (vhsOut'.err = "nil") <=> inRange
             /\ inRange => vhs'[t].currentVersionHistoryIndex = vhsOut'.index
             /\ ~inRange => (vhsOut'.err = "BadRequest" /\ vhs'[t] = vhs[t])
             /\ vhs'[t].histories = vhs[t].histories
       ]_vars

\* an index equal to the number of histories was rejected while the current
\* index was not 0, after AddVersionHistory had moved it
CurrentIndexValidWitness ==
    /\ vhsOut.op = "SetCurrentVersionHistoryIndex"
    /\ vhsOut.err = "BadRequest"
    /\ vhsOut.index = Len(vhs.orig.histories)
    /\ vhs.orig.currentVersionHistoryIndex = 1


\* C17: GetVersionHistory(index) answers every index outside
\* 0..|histories|-1, the index |histories| included, with a BadRequest error
\* and never aborts, and answers every index in the range with the history at
\* that index.
GetVersionHistoryBoundsChecked ==
    vhsOut.op = "GetVersionHistory" =>
        LET h == vhs[vhsOut.target] IN
        IF vhsOut.index \in 0..(Len(h.histories) - 1)
        THEN vhsOut.err = "nil" /\ vhsOut.addr = h.histories[vhsOut.index + 1]
        ELSE vhsOut.err = "BadRequest"


\* the rebuilt state is at a DecisionTaskStarted boundary
AtDecisionTaskStarted(ms) ==
    HasInFlightDecision(ms) /\ ms.startedID + 1 = ms.nextEventID

\* C18: a reset goes on after the rebuild only if the rebuilt state has an
\* in-flight decision with startedID + 1 = nextEventID; otherwise the call
\* fails with a BadRequest error (or with the error of the version check and
\* version update that come before), no event is appended to the reset state
\* and nothing is persisted.
DecisionGate ==
    [][ \A c \in Callers :
          (/\ call[c].pc = "patch"
           /\ call'[c] # call[c]
           /\ ~AtDecisionTaskStarted(call[c].rebuilt)) =>
              /\ call'[c].pc = "done"
              /\ call'[c].ret = NoRun
              /\ call'[c].resetEvents = <<>>
              /\ call'[c].retError \in
                    {"BadRequest: can only reset to DecisionTaskStarted",
                     "Internal: version mismatch", "UpdateCurrentVersion"}
              /\ UNCHANGED <<currentRun, executions, events>>
      ]_vars


\* the signals of the events evs and of the runs that follow them in the
\* continue-as-new chain, at most fuel runs
RECURSIVE ChainSignals(_, _)
ChainSignals(evs, fuel) ==
    SelectSeq(evs, LAMBDA e : e.type = "WorkflowExecutionSignaled") \o
    (IF fuel = 0 \/ evs = <<>> THEN <<>>
     ELSE IF Last(evs).type # "WorkflowExecutionContinuedAsNew" THEN <<>>
     ELSE ChainSignals(events[Last(evs).attr], fuel - 1))

\* the base tail [baseRebuildLastEventID+1, baseNextEventID) of a call
BaseTail(cl) ==
    [i \in 1..(IF cl.baseNextEventID > cl.baseRebuildLastEventID + 1
               THEN cl.baseNextEventID - cl.baseRebuildLastEventID - 1 ELSE 0) |->
        events[cl.baseRunID][cl.baseRebuildLastEventID + i]]

\* C19: the signals in the events a reset writes for the new run are exactly
\* the WorkflowExecutionSignaled events of the base run's range
\* [baseRebuildLastEventID+1, baseNextEventID), followed by those of every run
\* of the continue-as-new chain that starts at the base run, each once, in
\* their order and with their attributes (and then the signals the caller gave
\* as additional events); an empty base tail gives no signal and no successor
\* is followed.
SignalsReapplied ==
    [][ \A c \in Callers :
          (/\ call[c].pc \in {"update", "persistEvents"}
           /\ events'[call[c].resetRunID] # events[call[c].resetRunID]) =>
              SelectSeq(events'[call[c].resetRunID],
                        LAMBDA e : e.type = "WorkflowExecutionSignaled")
                 = ChainSignals(BaseTail(call[c]), NumRuns + NumCallers) \o
                   SelectSeq(world.additionalReapplyEvents,
                             LAMBDA e : e.type = "WorkflowExecutionSignaled")
      ]_vars

\* a reset has succeeded whose new run holds the signal of the base run and
\* then the signal of its continue-as-new successor
SignalsReappliedWitness ==
    \E c \in Callers :
        /\ call[c].pc = "done"
        /\ call[c].retError = "nil"
        /\ call[c].ret # NoRun
        /\ SelectSeq(events[call[c].ret], LAMBDA e : e.type = "WorkflowExecutionSignaled")
             = <<Event("WorkflowExecutionSignaled", 1), Event("WorkflowExecutionSignaled", 2)>>


\* the place of an appended event in the order of the appends
AppendRank(e) ==
    CASE e.type = "DecisionTaskFailed"        -> 1
      [] e.type = "ActivityTaskFailed"        -> 2
      [] e.type = "WorkflowExecutionSignaled" -> 3
      [] e.type = "DecisionTaskScheduled"     -> 4
      [] OTHER                                -> 0

\* the events written for a new run are in the order of the claim
InAppendOrder(cl, written) ==
    LET started == StartedActivities(cl.rebuilt)
        failed == {i \in DOMAIN written : written[i].type = "ActivityTaskFailed"}
        additional == SelectSeq(world.additionalReapplyEvents,
                                LAMBDA e : e.type = "WorkflowExecutionSignaled")
    IN
    /\ Len(written) >= 2
    /\ \A i \in DOMAIN written : AppendRank(written[i]) # 0
    /\ \A i, j \in DOMAIN written :
          i < j => AppendRank(written[i]) <= AppendRank(written[j])
    /\ {i \in DOMAIN written : AppendRank(written[i]) = 1} = {1}
    /\ {i \in DOMAIN written : AppendRank(written[i]) = 4} = {Len(written)}
    /\ Cardinality(failed) = Cardinality(started)
    /\ {written[i].attr.scheduleID : i \in failed} = {ai.scheduleID : ai \in started}
    /\ SelectSeq(written, LAMBDA e : e.type = "WorkflowExecutionSignaled")
          = ChainSignals(BaseTail(cl), NumRuns + NumCallers) \o additional

\* C20: the events appended to the reset state are, in this order, the
\* DecisionTaskFailed event, the ActivityTaskFailed events of the started
\* pending activities, the signals of the base tail and of its successors,
\* the signals among the additional events, and last the decision of
\* scheduleDecision; from scheduleDecision to the persist step nothing is
\* appended, and the persist step writes these events.
AppendOrdering ==
    /\ [](\A c \in Callers :
            call[c].pc \in {"update", "persistEvents", "create"} =>
                InAppendOrder(call[c], call[c].resetEvents))
    /\ [][ \A c \in Callers :
             (/\ call[c].pc \in {"update", "persistEvents"}
              /\ events'[call[c].resetRunID] # events[call[c].resetRunID]) =>
                 events'[call[c].resetRunID] = call[c].resetEvents
       ]_vars

\* a reset has succeeded whose new run holds two ActivityTaskFailed events, a
\* signal of the base run, one of its successor and the additional signals
AppendOrderingWitness ==
    \E c \in Callers :
        /\ call[c].pc = "done"
        /\ call[c].retError = "nil"
        /\ call[c].ret # NoRun
        /\ LET written == events[call[c].ret] IN
           /\ Cardinality({i \in DOMAIN written :
                               written[i].type = "ActivityTaskFailed"}) = 2
           /\ SelectSeq(written, LAMBDA e : e.type = "WorkflowExecutionSignaled")
                 = <<Event("WorkflowExecutionSignaled", 1),
                     Event("WorkflowExecutionSignaled", 2),
                     Event("WorkflowExecutionSignaled", 8),
                     Event("WorkflowExecutionSignaled", 9)>>


\* C21: every storage failure of a queue operation is returned as an Internal
\* error, and a failed EnqueueMessage or UpdateAckLevel leaves the stored
\* messages and ack levels as they were.
StorageErrorsInternal ==
    /\ [](qlog.last.ret \in {"nil", "Internal"})
    /\ [][ (/\ qlog'.last # qlog.last
            /\ qlog'.last.op \in {"enqueue", "ack"}
            /\ qlog'.last.ret # "nil") => UNCHANGED <<queueRows, ackRow>> ]_vars


\* a call that holds the current run it loaded
PastLoadCurrent(cl) ==
    cl.pc \in {"fork", "getDomain2", "rebuild", "patch", "reapplyBase", "loadNext",
               "reapplyNext", "schedule", "update", "persistEvents", "create"}

\* C22: currentWorkflowTerminated is true iff the base run is not the current
\* run and the current run was running when loaded; a reset persists on one
\* path: updateWorkflowExecutionWithNewAsActive on the current run when
\* currentWorkflowTerminated, otherwise persistFirstWorkflowEvents followed by
\* createWorkflowExecution with prevRunID = the current run's ID and
\* prevLastWriteVersion = the current run's last write version.
PersistPathSelection ==
    /\ [](\A c \in Callers :
            (PastLoadCurrent(call[c]) /\ call[c].currentRunID # NoRun) =>
                (call[c].currentWorkflowTerminated <=>
                    /\ call[c].baseRunID # call[c].currentRunID
                    /\ executions[call[c].currentRunID].state = "running"))
    /\ [][\A c \in Callers :
            LET old == call[c]
                new == call[c]' IN
            (new.pc # old.pc) =>
              /\ (new.pc = "update") => (old.pc = "schedule" /\ old.currentWorkflowTerminated)
              /\ (new.pc = "persistEvents") =>
                     (old.pc = "schedule" /\ ~old.currentWorkflowTerminated)
              /\ (new.pc = "create") => (old.pc = "persistEvents")
              /\ (new.pc = "done" /\ new.retError = "nil") =>
                     /\ old.pc = IF old.currentWorkflowTerminated THEN "update" ELSE "create"
                     /\ currentRun = old.currentRunID
                     /\ old.currentWorkflow = old.currentRunID
                     /\ currentRun' = old.resetRunID
                     /\ executions'[old.resetRunID].state = "running"
                     /\ old.currentWorkflowTerminated =>
                            /\ executions[old.currentRunID].state = "running"
                            /\ executions'[old.currentRunID].state = "closed"
                     /\ ~old.currentWorkflowTerminated =>
                            /\ events[old.resetRunID] = old.resetEvents
                            /\ executions'[old.currentRunID] = executions[old.currentRunID]
                            /\ CreateCondition(old.currentRunID,
                                               executions[old.currentRunID].lastWriteVersion)
          ]_vars

\* both persist paths have completed a reset
PersistPathSelectionWitness ==
    \E c, d \in Callers :
        /\ call[c].pc = "done" /\ call[c].retError = "nil"
        /\ call[c].currentWorkflowTerminated
        /\ call[d].pc = "done" /\ call[d].retError = "nil"
        /\ ~call[d].currentWorkflowTerminated


\* the ActivityTaskFailed events among the events appended to a reset state
FailedEvents(resetEvents) ==
    SelectSeq(resetEvents, LAMBDA e : e.type = "ActivityTaskFailed")

\* failInflightActivity has left the reset state as the claim says
ActivitiesFailed(ms, resetEvents) ==
    LET failed == FailedEvents(resetEvents) IN
    \A ai \in ms.activities :
        LET mine == {i \in DOMAIN failed : failed[i].attr.scheduleID = ai.scheduleID} IN
        IF ai.startedID = EmptyEventID THEN mine = {}
        ELSE /\ Cardinality(mine) = 1
             /\ \A i \in mine :
                   failed[i].attr = [scheduleID |-> ai.scheduleID,
                                     startedID |-> ai.startedID,
                                     reason |-> terminateReason,
                                     details |-> ai.details,
                                     identity |-> ai.startedIdentity]

\* C23: of the pending activities of the rebuilt state, one that has not
\* started gets no event, one with startedID = TransientEventID makes the
\* reset fail with nothing persisted, and every other one gets exactly one
\* ActivityTaskFailed event with reason = terminateReason and its own details
\* and identity.
InflightActivitiesFailed ==
    [][\A c \in Callers :
         LET old == call[c]
             new == call[c]' IN
         (old.pc = "patch" /\ new.pc # "patch") =>
            /\ (\E ai \in old.rebuilt.activities : ai.startedID = TransientEventID) =>
                  /\ new.pc = "done"
                  /\ new.retError # "nil"
                  /\ UNCHANGED <<currentRun, executions, events>>
            /\ (new.pc = "reapplyBase") =>
                  /\ ActivitiesFailed(old.rebuilt, new.resetEvents)
                  /\ Len(FailedEvents(new.resetEvents))
                        = Cardinality(StartedActivities(old.rebuilt))
      ]_vars


\* C24: resetWorkflowVersion is the current version of the current run when
\* that run, not the base run, was running and has been terminated in place,
\* and the failover version of the domain otherwise; a rebuilt state whose
\* current version exceeds resetWorkflowVersion makes the reset fail with
\* Internal before any event is appended, otherwise the current version of
\* the reset state becomes resetWorkflowVersion, so the new run is not written
\* at a version lower than the one of the replayed events.
ResetVersion ==
    /\ [](\A c \in Callers :
            (PastLoadCurrent(call[c]) /\ call[c].currentRunID # NoRun) =>
               call[c].resetWorkflowVersion =
                  IF /\ call[c].baseRunID # call[c].currentRunID
                     /\ executions[call[c].currentRunID].state = "running"
                  THEN executions[call[c].currentRunID].version
                  ELSE world.failoverVersion)
    /\ [][\A c \in Callers :
            LET old == call[c]
                new == call[c]' IN
            /\ (old.pc = "patch" /\ new.pc # "patch") =>
                  IF old.rebuilt.version > old.resetWorkflowVersion
                  THEN /\ new.pc = "done"
                       /\ new.retError = "Internal: version mismatch"
                       /\ UNCHANGED <<currentRun, executions, events>>
                  ELSE (new.pc # "done") =>
                          /\ new.rebuilt.version = old.resetWorkflowVersion
                          /\ new.resetWorkflowVersion = old.resetWorkflowVersion
            /\ (old.pc # "done" /\ new.pc = "done" /\ new.retError = "nil") =>
                  /\ executions'[old.resetRunID].version = old.resetWorkflowVersion
                  /\ executions'[old.resetRunID].version >= executions[old.baseRunID].version
                  /\ old.rebuilt.version = old.resetWorkflowVersion
          ]_vars

\* the version check has rejected a reset that took the failover version of
\* the domain, and a reset that terminated the current run in place has
\* succeeded at the version of that run, which is not the failover version
ResetVersionWitness ==
    \E c, d \in Callers :
        /\ call[c].pc = "done" /\ call[c].retError = "Internal: version mismatch"
        /\ call[d].pc = "done" /\ call[d].retError = "nil"
        /\ call[d].currentWorkflowTerminated
        /\ executions[call[d].ret].version # world.failoverVersion


\* the phase a call is in: 1 loading, 2 LOADED, 3 FORKED, 4 REBUILT,
\* 5 PATCHED, 6 REAPPLIED, 7 SCHEDULED, 8 PERSISTED; 9 is a failed call
Phase(cl) ==
    CASE cl.pc = "idle" -> 0
      [] cl.pc \in {"loadBase", "getCurrent", "loadCurrent", "getDomain2"} -> 1
      [] cl.pc = "fork" -> 2
      [] cl.pc = "rebuild" -> 3
      [] cl.pc = "patch" -> 4
      [] cl.pc \in {"reapplyBase", "loadNext", "reapplyNext"} -> 5
      [] cl.pc = "schedule" -> 6
      [] cl.pc \in {"update", "persistEvents", "create"} -> 7
      [] cl.pc = "done" /\ cl.retError = "nil" -> 8
      [] OTHER -> 9

\* C25: a reset passes through LOADED, FORKED, REBUILT, PATCHED, REAPPLIED,
\* SCHEDULED and PERSISTED in this order, skipping and repeating none; the
\* state rebuilder runs only after ForkHistoryBranch has returned the branch
\* forked at baseRebuildLastEventID+1 and is given the token of that branch;
\* the persist step is reached only after scheduleDecision has succeeded.
PhaseOrdering ==
    /\ [](\A c \in Callers :
            /\ (call[c].pc = "rebuild") =>
                  /\ call[c].resetBranchToken \in branches
                  /\ call[c].resetBranchToken =
                        [runID |-> call[c].resetRunID, forkFrom |-> call[c].baseRunID,
                         forkNodeID |-> call[c].baseRebuildLastEventID + 1]
            /\ (Phase(call[c]) \in 4..7) =>
                  /\ call[c].rebuilt.branchToken \in branches
                  /\ call[c].rebuilt.branchToken =
                        [runID |-> call[c].resetRunID, forkFrom |-> call[c].baseRunID,
                         forkNodeID |-> call[c].baseRebuildLastEventID + 1]
            /\ (Phase(call[c]) = 7) =>
                  Last(call[c].resetEvents).type = "DecisionTaskScheduled")
    /\ [][\A c \in Callers :
            LET old == Phase(call[c])
                new == Phase(call[c]') IN
            /\ new \in {old, old + 1, 9}
            /\ (old \in {0, 8, 9}) => (new = old \/ (old = 0 /\ new \in {1, 9}))
            /\ (call[c]'.pc \in {"update", "persistEvents"} /\ call[c]'.pc # call[c].pc) =>
                  call[c].pc = "schedule"
          ]_vars

\* a reset has reached PERSISTED, its branch forked and its events written
PhaseOrderingWitness ==
    \E c \in Callers :
        /\ Phase(call[c]) = 8
        /\ \E b \in branches : b.runID = call[c].ret
        /\ events[call[c].ret] # <<>>


\* the versions of the items of a history, and the eventID of its item of a version
VersionsOf(items) == {items[i].version : i \in DOMAIN items}
EventIDAt(items, version) ==
    LET i == CHOOSE j \in DOMAIN items : items[j].version = version IN items[i].eventID

\* C26: a.FindLCAItem(b) returns the item (min(eA, eB), v), v the greatest
\* version that occurs in both histories and eA, eB the eventIDs of the items
\* of version v in a and b; it fails (no joint point) iff no version occurs
\* in both; neither history is modified.
FindLCAItemResult ==
    /\ [](vhOut.op = "FindLCAItem" =>
            LET joint == VersionsOf(vh.a.items) \cap VersionsOf(vh.b.items) IN
            IF joint = {}
            THEN vhOut.ab.err = "BadRequest" /\ vhOut.ab.item = NoItem
            ELSE LET v == CHOOSE x \in joint : \A y \in joint : y <= x
                     eA == EventIDAt(vh.a.items, v)
                     eB == EventIDAt(vh.b.items, v) IN
                 /\ vhOut.ab.err = "nil"
                 /\ vhOut.ab.item = [eventID |-> IF eA < eB THEN eA ELSE eB, version |-> v])
    /\ [][(vhOut' # vhOut /\ vhOut'.op = "FindLCAItem") => vh' = vh]_vars

\* the joint version is below the last version of a, and b holds fewer events
\* of it than a
FindLCAItemResultWitness ==
    /\ vhOut.op = "FindLCAItem"
    /\ vhOut.ab.err = "nil"
    /\ Len(vh.a.items) >= 2 /\ Len(vh.b.items) >= 2
    /\ vhOut.ab.item.version < Last(vh.a.items).version
    /\ vhOut.ab.item.eventID < EventIDAt(vh.a.items, vhOut.ab.item.version)


\* C27: AddOrUpdateItem on a non-empty history rejects exactly when
\* item.version < last.version or item.eventID <= last.eventID, and a rejected
\* call leaves the items and the branch token of the history unchanged.
AddOrUpdateItemRejects ==
    [][(vhOut' # vhOut /\ vhOut'.op = "AddOrUpdateItem") =>
         LET items == vh[vhOut'.target].items
             item == vhOut'.item IN
         /\ (items # <<>>) =>
               (vhOut'.err = "BadRequest" <=>
                   \/ item.version < Last(items).version
                   \/ item.eventID <= Last(items).eventID)
         /\ (vhOut'.err = "BadRequest") => vh' = vh
      ]_vars

\* a call was rejected for its eventID alone, its version above the last one
AddOrUpdateItemRejectsWitness ==
    /\ vhOut.op = "AddOrUpdateItem"
    /\ vhOut.err = "BadRequest"
    /\ vhOut.item.version > Last(vh[vhOut.target].items).version
    /\ vhOut.item.eventID <= Last(vh[vhOut.target].items).eventID

\* C28: an accepted AddOrUpdateItem changes the tail only: with a greater
\* version, or on an empty history, one item is added and the last item
\* equals the input; with the version of the last item the number of items
\* stays and the eventID of the last item becomes that of the input; the
\* items before are unchanged, and a later write to the caller's item does
\* not change the history.
AddOrUpdateItemFrame ==
    [][/\ (vhOut' # vhOut /\ vhOut'.op = "AddOrUpdateItem" /\ vhOut'.err = "nil") =>
            LET n == vhOut'.target
                item == vhOut'.item
                old == vh[n].items
                new == vh'[n].items IN
            /\ \A m \in HistoryNames \ {n} : vh'[m] = vh[m]
            /\ vh'[n].branchToken = vh[n].branchToken
            /\ IF old = <<>> \/ item.version > Last(old).version
               THEN /\ Len(new) = Len(old) + 1
                    /\ Last(new) = item
                    /\ SubSeq(new, 1, Len(old)) = old
               ELSE /\ item.version = Last(old).version
                    /\ Len(new) = Len(old)
                    /\ Last(new) = [eventID |-> item.eventID, version |-> Last(old).version]
                    /\ SubSeq(new, 1, Len(old) - 1) = SubSeq(old, 1, Len(old) - 1)
       /\ (vhOut'.op = "mutateItem") => vh' = vh
      ]_vars

\* an item was added, another one raised the eventID of it, and the caller
\* then wrote to its item
AddOrUpdateItemFrameWitness ==
    /\ vhOut.op = "mutateItem"
    /\ vhOut.err = "nil"
    /\ Len(vh[vhOut.target].items) >= 2
    /\ Last(vh[vhOut.target].items) # vhOut.item
    /\ Last(vh[vhOut.target].items).eventID >
          vh[vhOut.target].items[Len(vh[vhOut.target].items) - 1].eventID + 1


\* C29: a successful DuplicateUntilLCAItem(lca) returns a new history whose
\* items are the items of the original with version < lca.version followed by
\* lca, so that IsLCAAppendable(lca) holds of it, and leaves the original
\* unchanged; it fails when the item of the version of lca has a smaller
\* eventID than lca, and when the original holds larger versions only.
DuplicateUntilLCAItemResult ==
    /\ [](vhOut.op = "DuplicateUntilLCAItem" =>
            LET items == vh.a.items
                lca == vhOut.lcaItem IN
            /\ (vhOut.err = "nil") =>
                  /\ vhOut.result.items =
                        SelectSeq(items, LAMBDA it : it.version < lca.version) \o <<lca>>
                  /\ vhOut.appendable = "true"
                  /\ ~vhOut.shared
            /\ (\E i \in DOMAIN items :
                   items[i].version = lca.version /\ items[i].eventID < lca.eventID) =>
                  vhOut.err = "BadRequest"
            /\ (items # <<>> /\ \A i \in DOMAIN items : items[i].version > lca.version) =>
                  vhOut.err = "BadRequest")
    /\ [][(vhOut' # vhOut /\ vhOut'.op = "DuplicateUntilLCAItem") => vh' = vh]_vars

\* a history of three items was cut at an event before the end of its second item
DuplicateUntilLCAItemResultWitness ==
    /\ vhOut.op = "DuplicateUntilLCAItem"
    /\ vhOut.err = "nil"
    /\ Len(vh.a.items) = 3
    /\ Len(vhOut.result.items) = 2
    /\ vhOut.lcaItem.eventID < vh.a.items[2].eventID


\* C30: a successful AddVersionHistory(v) appends a deep copy of v as the last
\* branch and returns its index, the number of branches less one; the new
\* branch becomes current, and the call reports a change, iff the version of
\* the last item of v is greater than the version of the last item of the
\* current branch; otherwise the current index stays and no change is
\* reported; a rejected call leaves the collection unchanged.
AddVersionHistoryResult ==
    [][(vhsOut' # vhsOut /\ vhsOut'.op = "AddVersionHistory") =>
         LET t == vhsOut'.target
             v == vhsOut'.v
             old == vhs[t]
             new == vhs'[t] IN
         IF vhsOut'.err = "nil"
         THEN LET addr == Last(new.histories)
                  currentLast ==
                      Last(vhsMem.hist[old.histories[old.currentVersionHistoryIndex + 1]].items)
              IN
              /\ new.histories = Append(old.histories, addr)
              /\ vhsOut'.index = Len(new.histories) - 1
              /\ addr = Len(vhsMem.hist) + 1
              /\ vhsMem'.hist[addr].tok = Len(vhsMem.arr) + 1
              /\ HistoryValue(vhsMem', addr) = v
              /\ SubSeq(vhsMem'.hist, 1, Len(vhsMem.hist)) = vhsMem.hist
              /\ SubSeq(vhsMem'.arr, 1, Len(vhsMem.arr)) = vhsMem.arr
              /\ \A u \in DOMAIN vhs : u # t => vhs'[u] = vhs[u]
              /\ IF Last(v.items).version > currentLast.version
                 THEN /\ new.currentVersionHistoryIndex = vhsOut'.index
                      /\ vhsOut'.changed
                 ELSE /\ new.currentVersionHistoryIndex = old.currentVersionHistoryIndex
                      /\ ~vhsOut'.changed
         ELSE vhs' = vhs /\ vhsMem' = vhsMem
      ]_vars

\* a branch was added that ends at the version of the current branch, which
\* stayed current, after one that became current
AddVersionHistoryResultWitness ==
    /\ vhsOut.op = "AddVersionHistory"
    /\ vhsOut.err = "nil"
    /\ ~vhsOut.changed
    /\ vhsOut.index = 2
    /\ vhs.orig.currentVersionHistoryIndex = 1
    /\ Last(vhsOut.v.items).version = MaxBranchVersion


\* the LCA of the branch at index i (from 0) with the incoming items, and the
\* number of items of the branch
BranchLCA(mem, h, i, incomingItems) ==
    FindLCAItem(mem.hist[h.histories[i + 1]].items, incomingItems)
BranchLength(mem, h, i) == Len(mem.hist[h.histories[i + 1]].items)

\* branch i is a better choice than branch j: a larger eventID of the LCA,
\* then fewer items, then the lower index
BetterBranch(mem, h, i, j, incomingItems) ==
    LET a == BranchLCA(mem, h, i, incomingItems).item
        b == BranchLCA(mem, h, j, incomingItems).item IN
    \/ a.eventID > b.eventID
    \/ a.eventID = b.eventID /\ BranchLength(mem, h, i) < BranchLength(mem, h, j)
    \/ a.eventID = b.eventID /\ BranchLength(mem, h, i) = BranchLength(mem, h, j) /\ i < j

\* C31: FindLCAVersionHistoryIndexAndItem(incoming) returns the index of the
\* local branch whose LCA with incoming has the largest eventID, among equal
\* eventIDs the branch with the fewest items, among those the lowest index,
\* and that LCA item; it fails if a local branch has no joint point with
\* incoming.
LCAIndexSelection ==
    (vhsOut.op = "FindLCAVersionHistoryIndexAndItem") =>
        LET h == vhs[vhsOut.target]
            incomingItems == vhsOut.incoming.items
            indexes == 0..(Len(h.histories) - 1) IN
        IF \E i \in indexes : BranchLCA(vhsMem, h, i, incomingItems).err # "nil"
        THEN vhsOut.err = "BadRequest"
        ELSE /\ vhsOut.err = "nil"
             /\ vhsOut.index \in indexes
             /\ vhsOut.item = BranchLCA(vhsMem, h, vhsOut.index, incomingItems).item
             /\ \A j \in indexes \ {vhsOut.index} :
                   BetterBranch(vhsMem, h, vhsOut.index, j, incomingItems)

\* of three branches the last one was chosen for its fewer items, the eventID
\* of its LCA that of another branch
LCAIndexSelectionWitness ==
    /\ vhsOut.op = "FindLCAVersionHistoryIndexAndItem"
    /\ vhsOut.err = "nil"
    /\ Len(vhs.orig.histories) = 3
    /\ vhsOut.index > 0
    /\ \E j \in 0..(vhsOut.index - 1) :
          /\ BranchLCA(vhsMem, vhs.orig, j, vhsOut.incoming.items).item.eventID
                = vhsOut.item.eventID
          /\ BranchLength(vhsMem, vhs.orig, j) > BranchLength(vhsMem, vhs.orig, vhsOut.index)


\* C32: UpdateAckLevel(m, c) changes at most the level of cluster c.  A call
\* that finds no stored map creates the map {c: m}; a call that finds
\* existing[c] > m changes nothing; otherwise the call sets existing[c] = m;
\* a failed call changes nothing.  The levels of the other clusters and the
\* stored messages are the same after the call, and no step of the call
\* before its last one writes anything.
UpdateAckLevelEffect(p) ==
    LET m == qcall[p].arg
        c == qcall[p].clusterName IN
    /\ queueRows' = queueRows
    /\ \A d \in Clusters \ {c} :
          /\ (d \in DOMAIN ackRow'.levels) = (d \in DOMAIN ackRow.levels)
          /\ MapGet(ackRow'.levels, d) = MapGet(ackRow.levels, d)
    /\ IF qlog'.last.ret # "nil"
       THEN ackRow' = ackRow
       ELSE IF ~ackRow.present
            THEN ackRow' = [present |-> TRUE, levels |-> [x \in {c} |-> m]]
            ELSE IF MapGet(ackRow.levels, c) > m
                 THEN ackRow' = ackRow
                 ELSE /\ ackRow'.present
                      /\ DOMAIN ackRow'.levels = DOMAIN ackRow.levels \cup {c}
                      /\ ackRow'.levels[c] = m

UpdateAckLevelFrame ==
    [][\A p \in Clients :
          /\ (qcall[p].op = "ack" /\ qcall'[p].pc = "idle") => UpdateAckLevelEffect(p)
          /\ (qcall'[p].op = "ack" /\ qcall'[p] # qcall[p]) =>
                /\ queueRows' = queueRows
                /\ ackRow' = ackRow]_vars

\* an update of one cluster has returned while the other cluster has a level
\* and a message is stored
UpdateAckLevelFrameWitness ==
    /\ qlog.last.op = "ack"
    /\ qlog.last.ret = "nil"
    /\ ackRow.present
    /\ DOMAIN ackRow.levels = Clusters
    /\ \E c, d \in Clusters : ackRow.levels[c] # ackRow.levels[d]
    /\ queueRows # {}


\* C33: a successful DeleteMessagesBefore(k) removes exactly the stored
\* messages with messageID < k: every message with messageID >= k is kept, no
\* message is added, and the ack levels are unchanged; a second call with the
\* same k on the resulting queue removes nothing.  A failed call changes
\* nothing.
DeleteMessagesBeforeEffect ==
    [][(qlog'.started = qlog.started + 1 /\ qlog'.last.op = "delete") =>
         LET k == qlog'.last.messageID IN
         /\ ackRow' = ackRow
         /\ IF qlog'.last.ret = "nil"
            THEN /\ queueRows' \subseteq queueRows
                 /\ \A r \in queueRows : (r \in queueRows') = (r.messageID >= k)
                 /\ RowsNotBefore(queueRows', k) = queueRows'
            ELSE queueRows' = queueRows]_vars

\* a delete has removed one message and kept another, with ack levels stored
DeleteMessagesBeforeWitness ==
    /\ qlog.last.op = "delete"
    /\ qlog.last.ret = "nil"
    /\ ackRow.present
    /\ queueRows # {}
    /\ \A r \in queueRows : r.messageID >= qlog.last.messageID
    /\ \E i \in 1..Len(qlog.assigned) : qlog.assigned[i] < qlog.last.messageID


\* C34: ResetWorkflowExecution never asks loadNDCWorkflow for the exclusive
\* handle of a run whose handle the same call already holds unreleased (the
\* request could not be granted and the call would wait on itself): whenever
\* a call is about to load a continue-as-new successor, the handle of that
\* run is not held by the call.
NoSelfHandleRequest ==
    \A c \in Callers :
        call[c].pc = "loadNext" => handles[call[c].nextRunID] # c


\* C35: after every successful ResetWorkflowExecution the run that was current
\* before the call is not running (it was closed already, or the reset
\* terminated it), so the workflow does not have two running runs.
PreviousRunClosed ==
    \A c \in Callers :
        (call[c].pc = "done" /\ call[c].retError = "nil") =>
            executions[call[c].currentRunID].state # "running"


\* C36: in a VersionHistories made by NewVersionHistories and changed only by
\* AddVersionHistory, no branch has a last item with a greater version than
\* the last item of the current branch, and every IsRebuilt() returns false.
CurrentBranchMaximal ==
    LET h == vhs.orig
        lastVersion(i) == Last(vhsMem.hist[h.histories[i]].items).version
    IN
    /\ h.currentVersionHistoryIndex \in 0..(Len(h.histories) - 1)
    /\ (vhsMem.hist[h.histories[h.currentVersionHistoryIndex + 1]].items # <<>>) =>
          \A i \in 1..Len(h.histories) :
              /\ vhsMem.hist[h.histories[i]].items # <<>>
              /\ lastVersion(i) <= lastVersion(h.currentVersionHistoryIndex + 1)
    /\ (vhsOut.op = "IsRebuilt") => ~vhsOut.rebuilt

\* IsRebuilt was asked of three branches, the second of them current: the
\* second add switched to a greater version, the third did not
CurrentBranchMaximalWitness ==
    /\ vhsOut.op = "IsRebuilt"
    /\ vhsOut.err = "nil"
    /\ Len(vhs.orig.histories) = 3
    /\ vhs.orig.currentVersionHistoryIndex = 1
    /\ Last(vhsMem.hist[vhs.orig.histories[3]].items).version
           < Last(vhsMem.hist[vhs.orig.histories[2]].items).version


\* a history the API builds from events: event IDs from FirstEventID and
\* versions from 0, both increasing along the items
ValidVersionHistory(items) ==
    /\ \A i \in 1..Len(items) : items[i].eventID >= FirstEventID /\ items[i].version >= 0
    /\ \A i \in 1..(Len(items) - 1) :
          /\ items[i].eventID < items[i + 1].eventID
          /\ items[i].version < items[i + 1].version

\* C37: for every valid history h and every valid item x, eventID 0 included,
\* h.DuplicateUntilLCAItem(x) succeeds exactly when h.ContainsItem(x) is true.
DuplicateAgreesWithContains ==
    (/\ vhOut.op = "DuplicateUntilLCAItem"
     /\ ValidVersionHistory(vh.a.items)
     /\ vhOut.lcaItem.version >= 0) =>
        ((vhOut.err = "nil") <=> ContainsItem(vh.a.items, vhOut.lcaItem))

====
